---------------------------- MODULE Spec2Model ----------------------------
(***************************************************************************)
(* A model of dnaio's FASTQ parser (FastqIter in src/dnaio/_core.pyx) and  *)
(* of SequenceRecord.fastq_bytes.  Bytes are numbers 0..255, byte strings  *)
(* are sequences of bytes, and pointers into the parser's buffer are       *)
(* 0-based offsets from the start of the buffer.                           *)
(***************************************************************************)
EXTENDS Integers, Sequences, FiniteSets, TLC

VARIABLES
    input,                \* the bytes of the file behind self.file
    pos,                  \* number of bytes self.file.read has handed out
    reader_eof,           \* self.file.read has returned b"" at least once
    reads_after_eof,      \* read calls made after read had returned b""
    buffer_size,          \* FastqIter.buffer_size (capacity of buffer)
    buffer,               \* bytes at offsets [0, bytes_in_buffer) of buffer
    record_start,         \* FastqIter.record_start - FastqIter.buffer
    extra_newline,        \* FastqIter.extra_newline
    yielded_two_headers,  \* FastqIter.yielded_two_headers
    eof,                  \* FastqIter.eof
    number_of_records,    \* FastqIter.number_of_records
    pc,                   \* "idle": between calls, "running": inside __next__
    out,                  \* what each finished call to __next__ gave back
    synth,                \* every write of a synthetic newline: offset, capacity
    source,               \* the record whose fastq_bytes the file holds, if any
    seq_record,           \* a SequenceRecord object: its five attributes
    last,                 \* the last call made on seq_record and what it gave back
    bams,                 \* the BamIter objects: their fields, files and results
    decode_bam_sequence   \* the function pointer of bam.h

vars == <<input, pos, reader_eof, reads_after_eof, buffer_size, buffer,
          record_start, extra_newline, yielded_two_headers, eof,
          number_of_records, pc, out, synth, source, seq_record, last, bams,
          decode_bam_sequence>>

---------------------------------------------------------------------------
(* Bytes *)

LF == 10
CR == 13
AT == 64
PLUS == 43
BANG == 33
LetterA == 65
LetterB == 66
LetterC == 67
HighByte == 128
ASCII_MASK_1BYTE == 128

NULL == -1      \* memchr found nothing
NoLine == -1    \* FastqFormatError(..., None)

(* Bounds of the model *)

MaxCalls == 6         \* calls to __next__ made on one parser
MaxBufferSize == 7    \* the larger of the two initial buffer sizes
MaxNameLen == 2       \* longest name of a record given to fastq_bytes
MaxFieldLen == 1      \* longest sequence of a record given to fastq_bytes

---------------------------------------------------------------------------
(* Helpers on byte strings *)

At(buf, i) == buf[i + 1]

Last(s) == s[Len(s)]

Front(s) == SubSeq(s, 1, Len(s) - 1)

MinOf(S) == CHOOSE i \in S : \A j \in S : i <= j

RECURSIVE CountByte(_, _)
CountByte(s, c) ==
    IF s = <<>> THEN 0
    ELSE (IF s[1] = c THEN 1 ELSE 0) + CountByte(Tail(s), c)

\* libc memchr over n bytes starting at offset start
memchr(buf, start, c, n) ==
    LET hits == {i \in start .. (start + n - 1) : At(buf, i) = c}
    IN  IF hits = {} THEN NULL ELSE MinOf(hits)

\* string_is_ascii with its last loop ending one byte early
string_is_ascii_short(string) ==
    \A i \in 1 .. (Len(string) - 1) : (string[i] \div ASCII_MASK_1BYTE) % 2 = 0

\* ascii_check.h: no byte has the bit ASCII_MASK_1BYTE set
string_is_ascii(string) ==
    \A i \in 1 .. Len(string) : (string[i] \div ASCII_MASK_1BYTE) % 2 = 0


---------------------------------------------------------------------------
(* What a call to __next__ gives back.  The field read is the number of    *)
(* input bytes the reader had handed out when the call finished.           *)

Outcome(kind, two, name, sequence, qualities, err, line) ==
    [kind |-> kind, two_headers |-> two, name |-> name, sequence |-> sequence,
     qualities |-> qualities, err |-> err, line |-> line, read |-> 0]

\* the call that gives back o finishes when the reader has handed out p bytes
Finished(o, p) == [o EXCEPT !.read = p]

\* return bool(second_header_length)
Sentinel(two) == Outcome("bool", two, <<>>, <<>>, <<>>, "", NoLine)

\* return ret_val, a SequenceRecord
Record(name, sequence, qualities) ==
    Outcome("record", FALSE, name, sequence, qualities, "", NoLine)

\* raise FastqFormatError(..., line=line), ValueError or TypeError
Error(err, line) == Outcome("error", FALSE, <<>>, <<>>, <<>>, err, line)

\* raise StopIteration()
StopIteration == Outcome("stop", FALSE, <<>>, <<>>, <<>>, "", NoLine)

---------------------------------------------------------------------------
(* SequenceRecord.fastq_bytes *)

Uninitialized == 256    \* a byte of PyBytes_FromStringAndSize(NULL, n) not yet written

\* memcpy that leaves the last byte of src uncopied
memcpy_one_short(dest, at, src) ==
    [i \in 1 .. Len(dest) |->
        IF i > at /\ i < at + Len(src) THEN src[i - at] ELSE dest[i]]

\* memcpy(dest + at, src, Len(src)) on a byte array held as a sequence
memcpy(dest, at, src) ==
    [i \in 1 .. Len(dest) |->
        IF i > at /\ i <= at + Len(src) THEN src[i - at] ELSE dest[i]]

\* dest[at] = byte
poke(dest, at, byte) == memcpy(dest, at, <<byte>>)

\* fastq_bytes that never repeats the name on the third line
fastq_bytes_one_header(name, sequence, qualities, two_headers) ==
    <<AT>> \o name \o <<LF>> \o sequence \o <<LF, PLUS, LF>> \o qualities \o <<LF>>

\* fastq_bytes with the sequence and the qualities copied to each other's place
fastq_bytes_swapped(name, sequence, qualities, two_headers) ==
    <<AT>> \o name \o <<LF>> \o qualities \o <<LF, PLUS>>
        \o (IF two_headers THEN name ELSE <<>>) \o <<LF>> \o sequence \o <<LF>>

fastq_bytes(name, sequence, qualities, two_headers) ==
    LET name_length == Len(name)
        sequence_length == Len(sequence)
        qualities_length == Len(qualities)
        total_size == name_length + sequence_length + qualities_length + 6
                      + (IF two_headers THEN name_length ELSE 0)
        r0 == [i \in 1 .. total_size |-> Uninitialized]
        r1 == poke(r0, 0, AT)
        r2 == memcpy(r1, 1, name)
        c2 == name_length + 1
        r3 == poke(r2, c2, LF)
        c3 == c2 + 1
        r4 == memcpy(r3, c3, sequence)
        c4 == c3 + sequence_length
        r5 == poke(r4, c4, LF)
        r6 == poke(r5, c4 + 1, PLUS)
        c6 == c4 + 2
        r7 == IF two_headers THEN memcpy(r6, c6, name) ELSE r6
        c7 == IF two_headers THEN c6 + name_length ELSE c6
        r8 == poke(r7, c7, LF)
        c8 == c7 + 1
        r9 == memcpy(r8, c8, qualities)
        c9 == c8 + qualities_length
    IN  poke(r9, c9, LF)

---------------------------------------------------------------------------
(* FastqIter *)

bytes_in_buffer == Len(buffer)

\* BufferTooSmall without the test that the record starts the buffer
BufferFull(start, in_buffer, size) == in_buffer = size

\* if self.record_start == self.buffer and self.bytes_in_buffer == self.buffer_size
BufferTooSmall(start, in_buffer, size) == start = 0 /\ in_buffer = size

\* DoubledSize that leaves the size as it is
SameSize(size) == size

\* self.buffer_size *= 2
DoubledSize(size) == size * 2

\* memmove(self.buffer, self.record_start, remaining_bytes)
memmove(buf, start) == SubSeq(buf, start + 1, Len(buf))

\* MissingFinalNewline with the "not" before self.extra_newline left out
MissingFinalNewlineInverted(extra, buf) == extra /\ At(buf, Len(buf) - 1) # LF

\* elif not self.extra_newline and self.buffer[self.bytes_in_buffer - 1] != b'\n'
MissingFinalNewline(extra, buf) == ~extra /\ At(buf, Len(buf) - 1) # LF

\* line=self.number_of_records * 4 + lines, lines = record.count('\n')
PrematureEofLine(records, record) == records * 4 + CountByte(record, LF)

\* The sizes of the chunk self.file.read(requested) may return: the reader
\* keeps its contract, at most the bytes asked for, b"" only at end of file.
ChunkSizes(requested) ==
    IF pos = Len(input) THEN {0}
    ELSE {k \in 1 .. requested : pos + k <= Len(input)}

\* FastqIter._read_into_buffer, the read returning filechunk_size bytes.
\* When it raises, the call to __next__ ends with that error.
ReadIntoBuffer(filechunk_size) ==
    LET grow == BufferTooSmall(record_start, bytes_in_buffer, buffer_size)
        size1 == IF grow THEN DoubledSize(buffer_size) ELSE buffer_size
        buf1 == IF grow THEN buffer ELSE memmove(buffer, record_start)
        empty_bytes_in_buffer == size1 - Len(buf1)
        filechunk == SubSeq(input, pos + 1, pos + filechunk_size)
        buf2 == buf1 \o filechunk
        stripped == IF extra_newline THEN Front(buf2) ELSE buf2
    IN  /\ buffer_size' = size1
        /\ record_start' = 0
        /\ pos' = pos + filechunk_size
        /\ reader_eof' = (reader_eof \/ filechunk_size = 0)
        /\ reads_after_eof' = reads_after_eof + (IF reader_eof THEN 1 ELSE 0)
        /\ UNCHANGED <<input, yielded_two_headers, number_of_records, source,
                       seq_record, last, bams, decode_bam_sequence>>
        /\ IF filechunk_size > empty_bytes_in_buffer
           THEN \* raise ValueError("read() returned too much data")
                /\ buffer' = buf1
                /\ out' = Append(out, Finished(Error("ReaderContract", NoLine), pos'))
                /\ pc' = "idle"
                /\ UNCHANGED <<extra_newline, eof, synth>>
           ELSE IF ~string_is_ascii(filechunk)
           THEN \* raise FastqFormatError("Non-ASCII characters found in record.", None)
                \* bytes_in_buffer is not advanced over the chunk
                /\ buffer' = buf1
                /\ out' = Append(out, Finished(Error("NonAscii", NoLine), pos'))
                /\ pc' = "idle"
                /\ UNCHANGED <<extra_newline, eof, synth>>
           ELSE IF filechunk_size # 0
           THEN /\ buffer' = buf2
                /\ pc' = "running"
                /\ UNCHANGED <<extra_newline, eof, out, synth>>
           ELSE IF Len(buf2) = 0
           THEN \* EOF Reached. Stop iterating.
                /\ eof' = TRUE
                /\ buffer' = buf2
                /\ pc' = "running"
                /\ UNCHANGED <<extra_newline, out, synth>>
           ELSE IF MissingFinalNewline(extra_newline, buf2)
           THEN \* self.buffer[self.bytes_in_buffer] = b'\n'
                /\ buffer' = Append(buf2, LF)
                /\ extra_newline' = TRUE
                /\ synth' = Append(synth, [at |-> Len(buf2), capacity |-> size1])
                /\ pc' = "running"
                /\ UNCHANGED <<eof, out>>
           ELSE \* Incomplete FASTQ records are present.
                /\ buffer' = stripped
                /\ out' = Append(out, Finished(Error("PrematureEof",
                              PrematureEofLine(number_of_records, stripped)), pos'))
                /\ pc' = "idle"
                /\ UNCHANGED <<extra_newline, eof, synth>>

---------------------------------------------------------------------------
(* FastqIter.__next__: the search for the four newlines of a record *)

Incomplete ==
    [complete |-> FALSE, name_end |-> NULL, sequence_start |-> NULL,
     sequence_end |-> NULL, second_header_start |-> NULL,
     second_header_end |-> NULL, qualities_start |-> NULL,
     qualities_end |-> NULL]

\* memcmp(second_header_start, b"+\n", 2) == 0
IsPlusNewline(buf, at) == At(buf, at) = PLUS /\ At(buf, at + 1) = LF

FindRecord(buf, start) ==
    LET buffer_end == Len(buf)
        name_end == memchr(buf, start, LF, buffer_end - start)
        sequence_start == name_end + 1
        sequence_end == memchr(buf, sequence_start, LF, buffer_end - sequence_start)
        second_header_start == sequence_end + 1
        remaining_bytes == buffer_end - second_header_start
        second_header_end ==
            IF remaining_bytes > 2 /\ IsPlusNewline(buf, second_header_start)
            THEN second_header_start + 1
            ELSE memchr(buf, second_header_start, LF, remaining_bytes)
        qualities_start == second_header_end + 1
        qualities_end == memchr(buf, qualities_start, LF, buffer_end - qualities_start)
    IN  IF name_end = NULL THEN Incomplete
        ELSE IF sequence_end = NULL THEN Incomplete
        ELSE IF second_header_end = NULL THEN Incomplete
        ELSE IF qualities_end = NULL THEN Incomplete
        ELSE [complete |-> TRUE, name_end |-> name_end,
              sequence_start |-> sequence_start, sequence_end |-> sequence_end,
              second_header_start |-> second_header_start,
              second_header_end |-> second_header_end,
              qualities_start |-> qualities_start, qualities_end |-> qualities_end]

\* CompensateCR that leaves the CR in the field
NoCompensation(buf, line_end, length) == length

\* if (line_end - 1)[0] == b'\r': length -= 1
CompensateCR(buf, line_end, length) ==
    IF At(buf, line_end - 1) = CR THEN length - 1 ELSE length

\* memcmp_differs that finds any two runs of bytes equal
memcmp_never_differs(buf, a, b, n) == FALSE

\* memcmp(a, b, n) != 0 on the buffer
memcmp_differs(buf, a, b, n) ==
    SubSeq(buf, a + 1, a + n) # SubSeq(buf, b + 1, b + n)

\* SeparatorLine counting lines from 1
SeparatorLineFromOne(records) == records * 4 + 3

\* line=self.number_of_records * 4 (+ 2, + 3)
HeaderLine(records) == records * 4
SeparatorLine(records) == records * 4 + 2
QualitiesLine(records) == records * 4 + 3

\* LengthsDiffer that accepts qualities longer than the sequence
QualitiesShorter(qualities_length, sequence_length) ==
    qualities_length < sequence_length

\* if qualities_length != sequence_length
LengthsDiffer(qualities_length, sequence_length) ==
    qualities_length # sequence_length

\* IsFirstYield that does not look at self.yielded_two_headers
FirstYieldUnflagged(records, yielded) == records = 0

\* if self.number_of_records == 0 and not self.yielded_two_headers
IsFirstYield(records, yielded) == records = 0 /\ ~yielded

\* The lengths and starts of the four fields of the record found at start
Fields(buf, start, found) ==
    LET name_start == start + 1
        second_header_start == found.second_header_start + 1
    IN  [name_start |-> name_start,
         second_header_start |-> second_header_start,
         name_length |->
             CompensateCR(buf, found.name_end, found.name_end - name_start),
         sequence_length |->
             CompensateCR(buf, found.sequence_end,
                          found.sequence_end - found.sequence_start),
         second_header_length |->
             CompensateCR(buf, found.second_header_end,
                          found.second_header_end - second_header_start),
         qualities_length |->
             CompensateCR(buf, found.qualities_end,
                          found.qualities_end - found.qualities_start)]

\* What __next__ does with the complete record found at start: the error it
\* raises, the first yielded value, or the record it returns.
ParseRecord(buf, start, found, records, yielded) ==
    LET f == Fields(buf, start, found)
        name == SubSeq(buf, f.name_start + 1, f.name_start + f.name_length)
        sequence == SubSeq(buf, found.sequence_start + 1,
                           found.sequence_start + f.sequence_length)
        qualities == SubSeq(buf, found.qualities_start + 1,
                            found.qualities_start + f.qualities_length)
    IN  IF At(buf, start) # AT
        THEN \* "Line expected to start with '@'"
             Error("BadHeader", HeaderLine(records))
        ELSE IF At(buf, found.second_header_start) # PLUS
        THEN \* "Line expected to start with '+'"
             Error("BadSeparator", SeparatorLine(records))
        ELSE IF /\ f.second_header_length # 0
                /\ \/ f.name_length # f.second_header_length
                   \/ memcmp_differs(buf, f.second_header_start, f.name_start,
                                     f.second_header_length)
        THEN \* "Sequence descriptions don't match"
             Error("HeaderMismatch", SeparatorLine(records))
        ELSE IF LengthsDiffer(f.qualities_length, f.sequence_length)
        THEN \* "Length of sequence and qualities differ"
             Error("LengthMismatch", QualitiesLine(records))
        ELSE IF IsFirstYield(records, yielded)
        THEN Sentinel(f.second_header_length # 0)
        ELSE Record(name, sequence, qualities)

\* A call to __next__ may start, or one is under way
InCall == pc = "running" \/ Len(out) < MaxCalls

\* if self.eof: raise StopIteration()
NextStopIteration ==
    /\ InCall
    /\ eof
    /\ out' = Append(out, Finished(StopIteration, pos))
    /\ pc' = "idle"
    /\ UNCHANGED <<input, pos, reader_eof, reads_after_eof, buffer_size, buffer,
                   record_start, extra_newline, yielded_two_headers, eof,
                   number_of_records, synth, source, seq_record, last, bams,
                   decode_bam_sequence>>

\* One of the four newlines is missing: self._read_into_buffer(); continue
NextReadIntoBuffer ==
    /\ InCall
    /\ ~eof
    /\ ~FindRecord(buffer, record_start).complete
    /\ \E filechunk_size \in
           ChunkSizes(IF BufferTooSmall(record_start, bytes_in_buffer, buffer_size)
                      THEN DoubledSize(buffer_size) - bytes_in_buffer
                      ELSE buffer_size - (bytes_in_buffer - record_start)) :
           ReadIntoBuffer(filechunk_size)

\* NextParseRecord that counts the first yielded value and the errors too
NextParseRecordCountingAll ==
    /\ InCall
    /\ ~eof
    /\ FindRecord(buffer, record_start).complete
    /\ LET found == FindRecord(buffer, record_start)
           result == ParseRecord(buffer, record_start, found,
                                 number_of_records, yielded_two_headers)
       IN  /\ out' = Append(out, Finished(result, pos))
           /\ pc' = "idle"
           /\ yielded_two_headers' = (yielded_two_headers \/ result.kind = "bool")
           /\ number_of_records' = number_of_records + 1
           /\ record_start' =
                  IF result.kind = "record" THEN found.qualities_end + 1
                  ELSE record_start
    /\ UNCHANGED <<input, pos, reader_eof, reads_after_eof, buffer_size, buffer,
                   extra_newline, eof, synth, source, seq_record, last, bams,
                   decode_bam_sequence>>

\* Four newlines were found: raise, yield the first value, or return a record
NextParseRecord ==
    /\ InCall
    /\ ~eof
    /\ FindRecord(buffer, record_start).complete
    /\ \E found \in {FindRecord(buffer, record_start)} :
       \E result \in {ParseRecord(buffer, record_start, found,
                                  number_of_records, yielded_two_headers)} :
           /\ out' = Append(out, Finished(result, pos))
           /\ pc' = "idle"
           /\ yielded_two_headers' = (yielded_two_headers \/ result.kind = "bool")
           /\ number_of_records' =
                  IF result.kind = "record" THEN number_of_records + 1
                  ELSE number_of_records
           /\ record_start' =
                  IF result.kind = "record" THEN found.qualities_end + 1
                  ELSE record_start
    /\ UNCHANGED <<input, pos, reader_eof, reads_after_eof, buffer_size, buffer,
                   extra_newline, eof, synth, source, seq_record, last, bams,
                   decode_bam_sequence>>

Next == NextStopIteration \/ NextReadIntoBuffer \/ NextParseRecord

---------------------------------------------------------------------------
(* Python objects: a type and, for str and bytes, the code points or bytes *)

NUL == 0
TAB == 9
SPACE == 32
HASH == 35
LetterG == 71
LetterT == 84

None == [type |-> "NoneType", value |-> <<>>]

Str(chars) == [type |-> "str", value |-> chars]

PyBytes(bytes) == [type |-> "bytes", value |-> bytes]

PyUnicode_CheckExact(o) == o.type = "str"

\* PyUnicode_IS_COMPACT_ASCII that takes every str for ASCII
AnyStrIsAscii(o) == TRUE

\* the str was created with maxchar <= 127
PyUnicode_IS_COMPACT_ASCII(o) == \A i \in 1 .. Len(o.value) : o.value[i] <= 127

PyUnicode_GET_LENGTH(o) == Len(o.value)

\* PyUnicode_DATA(o): the characters, and the NUL that ends them
PyUnicode_DATA(o) == o.value \o <<NUL>>

---------------------------------------------------------------------------
(* SequenceRecord.  A method is an operator that gives the object after the *)
(* call (self) and what the call returned or raised (result).               *)

\* SequenceRecord.__new__: every attribute is None
NewSequenceRecord ==
    [_name |-> None, _sequence |-> None, _qualities |-> None,
     _id |-> None, _comment |-> None]

Returned(self, value, new) ==
    [self |-> self,
     result |-> [kind |-> "return", err |-> "", value |-> value, record |-> new]]

\* raise TypeError (InvalidType) or ValueError (NonAscii, LengthMismatch,
\* QualitiesRequired)
Raised(self, err) ==
    [self |-> self,
     result |-> [kind |-> "raise", err |-> err, value |-> None,
                 record |-> NewSequenceRecord]]

SequenceRecord__init__(self, name, sequence, qualities) ==
    IF ~PyUnicode_CheckExact(name) THEN Raised(self, "InvalidType")
    ELSE IF ~PyUnicode_IS_COMPACT_ASCII(name) THEN Raised(self, "NonAscii")
    ELSE IF ~PyUnicode_CheckExact(sequence) THEN Raised(self, "InvalidType")
    ELSE IF ~PyUnicode_IS_COMPACT_ASCII(sequence) THEN Raised(self, "NonAscii")
    ELSE IF qualities # None /\ ~PyUnicode_CheckExact(qualities)
    THEN Raised(self, "InvalidType")
    ELSE IF qualities # None /\ ~PyUnicode_IS_COMPACT_ASCII(qualities)
    THEN Raised(self, "NonAscii")
    ELSE IF qualities # None
            /\ PyUnicode_GET_LENGTH(qualities) # PyUnicode_GET_LENGTH(sequence)
    THEN Raised(self, "LengthMismatch")
    ELSE Returned([self EXCEPT !._name = name, !._sequence = sequence,
                               !._qualities = qualities], None, NewSequenceRecord)

\* SequenceRecord.name.setter
SetName(self, name) ==
    IF ~PyUnicode_CheckExact(name) THEN Raised(self, "InvalidType")
    ELSE IF ~PyUnicode_IS_COMPACT_ASCII(name) THEN Raised(self, "NonAscii")
    ELSE Returned([self EXCEPT !._name = name, !._id = None, !._comment = None],
                  None, NewSequenceRecord)

\* SequenceRecord.sequence.setter
SetSequence(self, sequence) ==
    IF ~PyUnicode_CheckExact(sequence) THEN Raised(self, "InvalidType")
    ELSE IF ~PyUnicode_IS_COMPACT_ASCII(sequence) THEN Raised(self, "NonAscii")
    ELSE Returned([self EXCEPT !._sequence = sequence], None, NewSequenceRecord)

\* SequenceRecord.qualities.setter
SetQualities(self, qualities) ==
    IF PyUnicode_CheckExact(qualities) /\ ~PyUnicode_IS_COMPACT_ASCII(qualities)
    THEN Raised(self, "NonAscii")
    ELSE IF ~PyUnicode_CheckExact(qualities) /\ qualities # None
    THEN Raised(self, "InvalidType")
    ELSE Returned([self EXCEPT !._qualities = qualities], None, NewSequenceRecord)

\* libc strcspn(data, reject): the number of leading characters of the
\* NUL-terminated data that are not in reject
strcspn(data, reject) ==
    MinOf({n \in 0 .. (Len(data) - 1) : data[n + 1] \in reject \cup {NUL}})

\* libc strspn(data + start, accept): the number of leading characters from
\* offset start on that are in accept
strspn(data, start, accept) ==
    MinOf({n \in 0 .. (Len(data) - 1 - start) :
               data[start + n + 1] \notin accept})

\* SequenceRecord.id
GetId(self) ==
    LET name == PyUnicode_DATA(self._name)
        name_length == PyUnicode_GET_LENGTH(self._name)
        id_length == strcspn(name, {TAB, SPACE})
        id == IF id_length = name_length THEN self._name
              ELSE Str(SubSeq(name, 1, id_length))
        cached == IF self._id = None THEN id ELSE self._id
    IN  Returned([self EXCEPT !._id = cached], cached, NewSequenceRecord)

\* comment_start = comment_start + strspn(comment_start, '\t ')
SkipWhitespace(data, comment_start) ==
    comment_start + strspn(data, comment_start, {TAB, SPACE})

\* SequenceRecord.comment
GetComment(self) ==
    LET name == PyUnicode_DATA(self._name)
        name_length == PyUnicode_GET_LENGTH(self._name)
        id_length == strcspn(name, {TAB, SPACE})
        comment_start == SkipWhitespace(name, id_length + 1)
        comment == IF id_length = name_length THEN Str(<<>>)
                   ELSE Str(SubSeq(name, comment_start + 1, name_length))
        cached == IF self._comment = None THEN comment ELSE self._comment
    IN  Returned([self EXCEPT !._comment = cached],
                 IF PyUnicode_GET_LENGTH(cached) = 0 THEN None ELSE cached,
                 NewSequenceRecord)

\* A slice object: start, stop and step are <<>> for None or <<i>> for i
PySlice(start, stop, step) == [start |-> start, stop |-> stop, step |-> step]

\* PySlice_Unpack and PySlice_AdjustIndices for a sequence of length n: the
\* offset of the first element taken, the step, and how many are taken
SliceIndices(key, n) ==
    LET step == IF key.step = <<>> THEN 1 ELSE key.step[1]
        lower == IF step < 0 THEN -1 ELSE 0
        upper == IF step < 0 THEN n - 1 ELSE n
        Adjust(i) == IF i < 0
                     THEN (IF i + n < 0 THEN lower ELSE i + n)
                     ELSE (IF i >= n THEN upper ELSE i)
        start == IF key.start = <<>> THEN (IF step < 0 THEN upper ELSE lower)
                 ELSE Adjust(key.start[1])
        stop == IF key.stop = <<>> THEN (IF step < 0 THEN lower ELSE upper)
                ELSE Adjust(key.stop[1])
        count == IF step < 0
                 THEN (IF stop < start THEN (start - stop - 1) \div (-step) + 1
                       ELSE 0)
                 ELSE (IF start < stop THEN (stop - start - 1) \div step + 1
                       ELSE 0)
    IN  [start |-> start, step |-> step, count |-> count]

\* string[key] for a str and a slice
GetSlice(string, key) ==
    LET at == SliceIndices(key, Len(string.value))
    IN  Str([i \in 1 .. at.count |-> string.value[at.start + (i - 1) * at.step + 1]])

\* SequenceRecord.__getitem__
GetItem(self, key) ==
    LET made == SequenceRecord__init__(
                    NewSequenceRecord,
                    self._name,
                    GetSlice(self._sequence, key),
                    IF self._qualities # None THEN GetSlice(self._qualities, key)
                    ELSE None)
    IN  IF made.result.kind = "raise" THEN Raised(self, made.result.err)
        ELSE Returned(self, None, made.self)

\* SequenceRecord.fastq_bytes, the method: the check of the qualities, then
\* the bytes
FastqBytes(self, two_headers) ==
    IF self._qualities = None THEN Raised(self, "QualitiesRequired")
    ELSE Returned(self,
                  PyBytes(fastq_bytes(self._name.value, self._sequence.value,
                                      self._qualities.value, two_headers)),
                  NewSequenceRecord)

\* The table of _conversions.h: A and T, C and G stand for each other, upper
\* case; a byte that is no nucleotide stands for itself
NUCLEOTIDE_COMPLEMENTS(nucleotide) ==
    CASE nucleotide = LetterA -> LetterT
      [] nucleotide = LetterT -> LetterA
      [] nucleotide = LetterC -> LetterG
      [] nucleotide = LetterG -> LetterC
      [] OTHER -> nucleotide

\* qualities[cursor] in reverse_complement: a character, the NUL after the
\* last one, or whatever lies behind it
QualityAt(qualities, cursor, beyond) ==
    IF cursor < Len(qualities) THEN qualities[cursor + 1] ELSE beyond

\* SequenceRecord.reverse_complement; beyond is what a read behind the end of
\* the qualities gives
ReverseComplement(self, beyond) ==
    LET sequence == self._sequence.value
        sequence_length == PyUnicode_GET_LENGTH(self._sequence)
        reversed_sequence ==
            [reverse_cursor \in 1 .. sequence_length |->
                NUCLEOTIDE_COMPLEMENTS(sequence[sequence_length + 1 - reverse_cursor])]
        reversed_qualities ==
            [reverse_cursor \in 1 .. sequence_length |->
                QualityAt(PyUnicode_DATA(self._qualities),
                          sequence_length - reverse_cursor, beyond)]
    IN  Returned(self, None,
                 [NewSequenceRecord EXCEPT
                      !._name = self._name,
                      !._sequence = Str(reversed_sequence),
                      !._qualities = IF self._qualities # None
                                     THEN Str(reversed_qualities)
                                     ELSE None])

---------------------------------------------------------------------------
(* The calls made on one SequenceRecord *)

MaxIndex == 1    \* largest start and stop of a slice, either sign

NoKey == PySlice(<<>>, <<>>, <<>>)

NoResult == Returned(NewSequenceRecord, None, NewSequenceRecord).result

\* the call op made with the arguments args (or the slice key, or
\* two_headers), and what it returned or raised
Call(op, args, key, two_headers, result) ==
    [op |-> op, args |-> args, key |-> key, two_headers |-> two_headers,
     result |-> result]

NoCall == Call("", <<>>, NoKey, FALSE, NoResult)

\* __init__ has returned on the object
Constructed == seq_record._name # None

\* The calls that leave the object as it was.  What can follow such a call
\* can follow the state before it, so a behaviour is not taken further.
PureCalls == {"__getitem__", "fastq_bytes", "reverse_complement"}

\* the object exists and the next call on it may be made
Usable == Constructed /\ last.op \notin PureCalls

SampleNames ==
    {<<>>, <<LetterA>>, <<LetterA, SPACE, LetterB>>,
     <<LetterA, SPACE, TAB, LetterB>>, <<LetterA, TAB>>, <<SPACE, LetterA>>,
     <<LetterA, TAB, LetterB, SPACE, LetterC>>, <<LetterA, NUL, LetterB>>}

SampleSequences ==
    {<<>>, <<LetterA>>, <<LetterA, LetterC>>, <<LetterG, LetterA, BANG>>}

SampleQualities ==
    {<<>>, <<BANG>>, <<BANG, HASH>>, <<BANG, HASH, LetterA>>}

\* objects that are no str, and a str that is not ASCII
Unacceptable == {PyBytes(<<LetterA>>), Str(<<HighByte>>)}

NameArgs == {Str(s) : s \in SampleNames} \cup Unacceptable \cup {None}

SequenceArgs == {Str(s) : s \in SampleSequences} \cup Unacceptable \cup {None}

QualitiesArgs == {Str(s) : s \in SampleQualities} \cup Unacceptable \cup {None}

SliceBounds == {<<>>} \cup {<<i>> : i \in (-MaxIndex) .. MaxIndex}

SliceSteps == {<<>>, <<2>>, <<-1>>}

SliceKeys ==
    {PySlice(start, stop, step) :
        start \in SliceBounds, stop \in SliceBounds, step \in SliceSteps}

\* what a read behind the end of a str may give
BeyondBytes == {NUL, HighByte}

parser == <<input, pos, reader_eof, reads_after_eof, buffer_size, buffer,
            record_start, extra_newline, yielded_two_headers, eof,
            number_of_records, pc, out, synth, source>>

\* the call has run: the object is as the call left it
Called(op, args, key, two_headers, outcome) ==
    /\ seq_record' = outcome.self
    /\ last' = Call(op, args, key, two_headers, outcome.result)
    /\ UNCHANGED <<parser, bams, decode_bam_sequence>>

\* SequenceRecord(name, sequence, qualities)
NewRecord ==
    /\ last = NoCall
    /\ \E name \in NameArgs, sequence \in SequenceArgs, qualities \in QualitiesArgs :
           Called("__init__", <<name, sequence, qualities>>, NoKey, FALSE,
                  SequenceRecord__init__(seq_record, name, sequence, qualities))

\* seq_record.name = name
AssignName ==
    /\ Usable
    /\ \E name \in NameArgs :
           Called("name", <<name>>, NoKey, FALSE, SetName(seq_record, name))

\* seq_record.sequence = sequence
AssignSequence ==
    /\ Usable
    /\ \E sequence \in SequenceArgs :
           Called("sequence", <<sequence>>, NoKey, FALSE,
                  SetSequence(seq_record, sequence))

\* seq_record.qualities = qualities
AssignQualities ==
    /\ Usable
    /\ \E qualities \in QualitiesArgs :
           Called("qualities", <<qualities>>, NoKey, FALSE,
                  SetQualities(seq_record, qualities))

\* seq_record.id
ReadId ==
    /\ Usable
    /\ Called("id", <<>>, NoKey, FALSE, GetId(seq_record))

\* seq_record.comment
ReadComment ==
    /\ Usable
    /\ Called("comment", <<>>, NoKey, FALSE, GetComment(seq_record))

\* seq_record[key]
Slice ==
    /\ Usable
    /\ \E key \in SliceKeys :
           Called("__getitem__", <<>>, key, FALSE, GetItem(seq_record, key))

\* seq_record.fastq_bytes(two_headers)
CallFastqBytes ==
    /\ Usable
    /\ \E two_headers \in BOOLEAN :
           Called("fastq_bytes", <<>>, NoKey, two_headers,
                  FastqBytes(seq_record, two_headers))

\* seq_record.reverse_complement()
CallReverseComplement ==
    /\ Usable
    /\ \E beyond \in BeyondBytes :
           Called("reverse_complement", <<>>, NoKey, FALSE,
                  ReverseComplement(seq_record, beyond))

NextRecord ==
    \/ NewRecord
    \/ AssignName
    \/ AssignSequence
    \/ AssignQualities
    \/ ReadId
    \/ ReadComment
    \/ Slice
    \/ CallFastqBytes
    \/ CallReverseComplement

---------------------------------------------------------------------------
(* The files and the parsers of the model *)

\* two records, the first with no bases, the second with a repeated header
TwoRecords ==
    <<AT, LetterA, LF, LF, PLUS, LF, LF,
      AT, LetterB, LF, LetterC, LF, PLUS, LetterB, LF, BANG, LF>>

\* one record with a repeated header and CR LF line ends
CrLfRecord ==
    <<AT, LetterA, CR, LF, LetterC, CR, LF, PLUS, LetterA, CR, LF, BANG, CR, LF>>

BaseFiles == {TwoRecords, CrLfRecord}

EditBytes == {LF, CR, AT, PLUS, LetterB, HighByte}

Prefixes(file) == {SubSeq(file, 1, n) : n \in 0 .. Len(file)}

Edits(file) ==
    {[file EXCEPT ![i] = b] : i \in 1 .. Len(file), b \in EditBytes}

Inputs == UNION {Prefixes(file) \cup Edits(file) : file \in BaseFiles}

BufferSizes == {1, MaxBufferSize}

NoRecord == [name |-> <<>>, sequence |-> <<>>, qualities |-> <<>>,
             two_headers |-> FALSE, written |-> FALSE]

\* FastqIter.__cinit__ on a file holding file
NewFastqIter(file, size) ==
    /\ input = file
    /\ pos = 0
    /\ reader_eof = FALSE
    /\ reads_after_eof = 0
    /\ buffer_size = size
    /\ buffer = <<>>
    /\ record_start = 0
    /\ extra_newline = FALSE
    /\ yielded_two_headers = FALSE
    /\ eof = FALSE
    /\ number_of_records = 0
    /\ pc = "idle"
    /\ out = <<>>
    /\ synth = <<>>

\* no BamIter object exists; decode_bam_sequence has its initial value
NoBamIter ==
    /\ bams = <<>>
    /\ decode_bam_sequence = "decode_bam_sequence_default"

Init ==
    /\ source = NoRecord
    /\ seq_record = NewSequenceRecord
    /\ last = NoCall
    /\ NoBamIter
    /\ \E file \in Inputs, size \in BufferSizes : NewFastqIter(file, size)

Spec == Init /\ [][Next]_vars

\* The files written by fastq_bytes: one record of 7-bit ASCII fields with no
\* LF or CR and as many qualities as bases
NameBytes == {AT, PLUS, LetterA}
SequenceBytes == {LetterA, PLUS}
QualityBytes == {BANG, AT}

RECURSIVE StringsUpTo(_, _)
StringsUpTo(bytes, n) ==
    IF n = 0 THEN {<<>>}
    ELSE LET shorter == StringsUpTo(bytes, n - 1)
         IN  shorter \cup {Append(s, b) : s \in shorter, b \in bytes}

WellFormedRecords ==
    {[name |-> n, sequence |-> sq, qualities |-> q, two_headers |-> two,
      written |-> TRUE] :
        n \in StringsUpTo(NameBytes, MaxNameLen),
        sq \in StringsUpTo(SequenceBytes, MaxFieldLen),
        q \in StringsUpTo(QualityBytes, MaxFieldLen),
        two \in BOOLEAN}

InitRoundTrip ==
    \E r \in WellFormedRecords, size \in BufferSizes :
        /\ Len(r.sequence) = Len(r.qualities)
        /\ source = r
        /\ seq_record = NewSequenceRecord
        /\ last = NoCall
        /\ NoBamIter
        /\ NewFastqIter(fastq_bytes(r.name, r.sequence, r.qualities,
                                    r.two_headers), size)

SpecRoundTrip == InitRoundTrip /\ [][Next]_vars

\* A SequenceRecord object fresh from __new__, and no parser at work
InitRecord ==
    /\ source = NoRecord
    /\ seq_record = NewSequenceRecord
    /\ last = NoCall
    /\ NoBamIter
    /\ NewFastqIter(<<>>, 1)

SpecRecord == InitRecord /\ [][NextRecord]_vars

---------------------------------------------------------------------------
(* The FASTQ line grammar, read off a whole file at once: the reference    *)
(* the parser's observable behaviour is compared with.                     *)

AsciiOnly(text) == \A i \in 1 .. Len(text) : text[i] < 128

\* the offsets (from 1) of the line feeds of text
LineFeeds(text) == {i \in 1 .. Len(text) : text[i] = LF}

NumLines(text) == Cardinality(LineFeeds(text))

\* the offset of the n-th line feed of text, 0 for n = 0
NthLineFeed(text, n) ==
    IF n = 0 THEN 0
    ELSE CHOOSE i \in LineFeeds(text) :
             Cardinality({j \in LineFeeds(text) : j <= i}) = n

\* the n-th line of text without its line feed
Line(text, n) ==
    SubSeq(text, NthLineFeed(text, n - 1) + 1, NthLineFeed(text, n) - 1)

\* text with the final line feed a file may lack
Terminated(text) ==
    IF text # <<>> /\ Last(text) # LF THEN Append(text, LF) ELSE text

WithoutCR(line) ==
    IF line # <<>> /\ Last(line) = CR THEN Front(line) ELSE line

\* a line as a field: without one trailing CR when crlf, as it is otherwise
AsField(line, crlf) == IF crlf THEN WithoutCR(line) ELSE line

\* what the k-th group of four lines (k from 0) of text stands for
GroupOutcome(text, k, crlf) ==
    LET line1 == Line(text, 4 * k + 1)
        line2 == Line(text, 4 * k + 2)
        line3 == Line(text, 4 * k + 3)
        line4 == Line(text, 4 * k + 4)
        name == AsField(Tail(line1), crlf)
        repeated == AsField(Tail(line3), crlf)
        sequence == AsField(line2, crlf)
        qualities == AsField(line4, crlf)
    IN  IF line1 = <<>> \/ Head(line1) # AT THEN Error("BadHeader", 4 * k)
        ELSE IF line3 = <<>> \/ Head(line3) # PLUS
        THEN Error("BadSeparator", 4 * k + 2)
        ELSE IF repeated # <<>> /\ repeated # name
        THEN Error("HeaderMismatch", 4 * k + 2)
        ELSE IF Len(sequence) # Len(qualities)
        THEN Error("LengthMismatch", 4 * k + 3)
        ELSE Record(name, sequence, qualities)

\* whether the third line of the k-th group repeats the header
GroupRepeatsHeader(text, k, crlf) ==
    AsField(Tail(Line(text, 4 * k + 3)), crlf) # <<>>

\* What a parser of the grammar gives back for the file text, call by call,
\* up to the call that ends the iteration: the first value, the records, and
\* the end of the iteration or the error.
RECURSIVE ExpectedFrom(_, _, _)
ExpectedFrom(text, k, crlf) ==
    LET whole == Terminated(text)
        left == NumLines(whole) - 4 * k
    IN  IF left = 0 THEN <<StopIteration>>
        ELSE IF left < 4
        THEN <<Error("PrematureEof", 4 * k + (NumLines(text) - 4 * k))>>
        ELSE LET o == GroupOutcome(whole, k, crlf)
             IN  IF o.kind = "error" THEN <<o>>
                 ELSE (IF k = 0
                       THEN <<Sentinel(GroupRepeatsHeader(whole, k, crlf))>>
                       ELSE <<>>)
                      \o <<o>> \o ExpectedFrom(text, k + 1, crlf)

Expected(text) == ExpectedFrom(text, 0, TRUE)

\* what was given back, without when
Value(o) == [o EXCEPT !.read = 0]

IsTerminal(o) == o.kind \in {"error", "stop"}

IsValue(o) == o.kind \in {"bool", "record"}

\* the calls up to the first one that ended the iteration or failed
Observed ==
    LET ends == {i \in 1 .. Len(out) : IsTerminal(out[i])}
    IN  IF ends = {} THEN out ELSE SubSeq(out, 1, MinOf(ends))

\* a call has ended the iteration or failed
Ended == \E i \in 1 .. Len(out) : IsTerminal(out[i])

\* s is the start of t, the field read apart
IsPrefix(s, t) ==
    /\ Len(s) <= Len(t)
    /\ \A i \in 1 .. Len(s) : Value(s[i]) = Value(t[i])

Records(s) == SelectSeq(s, LAMBDA o : o.kind = "record")

Values(s) == SelectSeq(s, IsValue)

---------------------------------------------------------------------------
(* Claims *)

SourceRecord == Record(source.name, source.sequence, source.qualities)

\* C1: round trip.  When the file is fastq_bytes(two_headers) of a record r
\* of 7-bit ASCII fields without LF or CR and with as many qualities as
\* bases, the first call gives the boolean, the second a record equal to r,
\* and every later call ends the iteration; no call fails.
C1_RoundTrip ==
    source.written =>
        \A i \in 1 .. Len(out) :
            /\ i = 1 => out[i].kind = "bool"
            /\ i = 2 => Value(out[i]) = SourceRecord
            /\ i >= 3 => out[i].kind = "stop"

\* a record longer than both initial buffers, written with two headers, has
\* been read back and the iteration has ended
C1_Witness ==
    /\ source.written
    /\ source.two_headers
    /\ source.name # <<>>
    /\ source.sequence # <<>>
    /\ Len(out) >= 3
    /\ buffer_size > MaxBufferSize

\* the number of records among the first i calls
RecordsUpTo(i) == Len(Records(SubSeq(out, 1, i)))

\* the number of input bytes up to the end of the n-th line, the final line
\* feed counted only if the file has it
EndOfLine(n) ==
    LET at == NthLineFeed(Terminated(input), n)
    IN  IF at > Len(input) THEN Len(input) ELSE at

\* C2: records come in input order.  The k-th record returned is built from
\* the k-th group of four lines of the input (none skipped, none twice), and
\* it is returned only when the reader has handed out its last byte.
C2_StrictInputOrder ==
    \A i \in 1 .. Len(out) :
        out[i].kind = "record" =>
            LET k == RecordsUpTo(i)
            IN  /\ NumLines(Terminated(input)) >= 4 * k
                /\ Value(out[i]) = GroupOutcome(Terminated(input), k - 1, TRUE)
                /\ out[i].read >= EndOfLine(4 * k)

\* C3: for every 7-bit ASCII file, whatever the initial buffer size and
\* however the reader cuts the file into chunks, the values given back and the
\* way the iteration ends (its end, or the error and its line) are those the
\* file alone determines, and no value follows the end; a record longer than
\* the buffer is still returned.
C3_BufferGrowthTransparent ==
    AsciiOnly(input) =>
        /\ IsPrefix(Observed, Expected(input))
        /\ Values(out) = Values(Observed)

\* both records of a file were returned and the iteration ended, by a parser
\* whose buffer had to be doubled
C3_Witness ==
    /\ AsciiOnly(input)
    /\ buffer_size > MaxBufferSize
    /\ Len(Records(out)) = 2
    /\ Last(out).kind = "stop"

\* the part of the buffer not yet parsed
Residual == SubSeq(buffer, record_start + 1, Len(buffer))

\* C4 (amended): the boolean is given back at most once; whenever a call
\* returns a value, the first value returned is the boolean, so that it
\* precedes the first record; it is true iff the third line of the first
\* record has content after '+' (a trailing CR apart); no later call gives it.
C4_SentinelAtMostOnceAndFirst ==
    /\ Len(SelectSeq(out, LAMBDA o : o.kind = "bool")) <= 1
    /\ Values(out) # <<>> => Head(Values(out)).kind = "bool"
    /\ (out # <<>> /\ Last(out).kind = "bool") =>
           /\ NumLines(Residual) >= 4
           /\ Last(out).two_headers = GroupRepeatsHeader(Residual, 0, TRUE)

\* the boolean, true, then a record have been given back
C4_Witness ==
    /\ Len(Values(out)) >= 2
    /\ Values(out)[1].two_headers
    /\ Values(out)[2].kind = "record"

\* C4 as claimed: over the lifetime of a parser the boolean is given back
\* exactly once; so once the iteration has come to its end it has been given
\* back.
C4_SentinelExactlyOnce ==
    (\E i \in 1 .. Len(out) : out[i].kind = "stop") =>
        Len(SelectSeq(out, LAMBDA o : o.kind = "bool")) = 1

\* C5: every error is terminal.  After a call has failed, either every later
\* call fails with the same kind of error or every later call ends the
\* iteration, and no later call returns a value.
C5_ErrorsAreTerminal ==
    \A i \in 1 .. Len(out) :
        out[i].kind = "error" =>
            /\ \A j \in (i + 1) .. Len(out) : ~IsValue(out[j])
            /\ \/ \A j \in (i + 1) .. Len(out) :
                      out[j].kind = "error" /\ out[j].err = out[i].err
               \/ \A j \in (i + 1) .. Len(out) : out[j].kind = "stop"

\* C6: once read has returned b"", the parser does not call read again.
C6_NoReadAfterEof == reads_after_eof = 0

\* the file lacks only its final line feed: with it, every group of four
\* lines is a valid record of 7-bit ASCII
LacksOnlyFinalLineFeed ==
    /\ input # <<>>
    /\ Last(input) # LF
    /\ AsciiOnly(input)
    /\ NumLines(Terminated(input)) % 4 = 0
    /\ \A k \in 0 .. (NumLines(Terminated(input)) \div 4 - 1) :
           GroupOutcome(Terminated(input), k, TRUE).kind = "record"

\* C7: a file that lacks only its final line feed is parsed without error
\* and its last record is returned; the parser writes a synthetic line feed
\* at most once, for such a file exactly once, and inside the buffer.
C7_MissingFinalNewline ==
    /\ Len(synth) <= 1
    /\ \A i \in 1 .. Len(synth) : synth[i].at < synth[i].capacity
    /\ LacksOnlyFinalLineFeed =>
           /\ \A i \in 1 .. Len(out) : out[i].kind # "error"
           /\ (out # <<>> /\ Last(out).kind = "stop") =>
                  /\ Len(synth) = 1
                  /\ Len(Records(out)) = NumLines(Terminated(input)) \div 4
                  /\ Value(Last(Records(out))) =
                         GroupOutcome(Terminated(input),
                                      NumLines(Terminated(input)) \div 4 - 1, TRUE)

\* a file of two records without its final line feed has been parsed to the end
C7_Witness ==
    /\ LacksOnlyFinalLineFeed
    /\ Len(Records(out)) = 2
    /\ Last(out).kind = "stop"
    /\ Len(synth) = 1

\* text with every CR that stands before a LF removed
RECURSIVE WithLFEndings(_)
WithLFEndings(text) ==
    IF text = <<>> THEN <<>>
    ELSE IF Len(text) >= 2 /\ text[1] = CR /\ text[2] = LF
    THEN WithLFEndings(Tail(text))
    ELSE <<Head(text)>> \o WithLFEndings(Tail(text))

\* C8: CR LF line ends.  The boolean and the records returned for a file are
\* those of the same file with LF line ends, read with every other byte,
\* further CRs included, taken as it stands: exactly one CR before a LF is
\* left out of a field, and headers and lengths are compared without it.
C8_CrLfTolerance ==
    AsciiOnly(input) =>
        LET values == Values(Observed)
            expected ==
                Values(ExpectedFrom(WithLFEndings(Terminated(input)), 0, FALSE))
        IN  /\ IsPrefix(values, expected)
            /\ Ended => Len(values) = Len(expected)

\* a record each of whose four lines ends in CR LF has been returned
C8_Witness ==
    /\ input = CrLfRecord
    /\ Len(Records(out)) = 1

\* C9: a chunk holding a byte >= 0x80 makes the call that reads it fail with
\* NonAscii, and no record holding such a byte is ever returned.
C9_NonAsciiRejected ==
    /\ [][(pos' > pos /\ ~AsciiOnly(SubSeq(input, pos + 1, pos')))
              => /\ Len(out') = Len(out) + 1
                 /\ Last(out').kind = "error"
                 /\ Last(out').err = "NonAscii"]_vars
    /\ [](\A i \in 1 .. Len(out) :
              /\ AsciiOnly(out[i].name)
              /\ AsciiOnly(out[i].sequence)
              /\ AsciiOnly(out[i].qualities))

\* a call has failed with NonAscii after an earlier call returned a record
C9_Witness ==
    /\ out # <<>>
    /\ Last(out).err = "NonAscii"
    /\ Records(out) # <<>>

\* C10: when the unparsed part of the buffer holds four line feeds and n
\* records have been returned, a first byte other than '@' makes the call fail
\* with BadHeader at line 4n; otherwise a third line not starting with '+'
\* makes it fail with BadSeparator at line 4n+2; no record is returned and n
\* stays.
C10_HeaderAndSeparator ==
    [][(NumLines(Residual) >= 4 /\ out' # out) =>
          LET third == Line(Residual, 3)
          IN  IF Head(Residual) # AT
              THEN /\ Value(Last(out')) = Error("BadHeader", 4 * number_of_records)
                   /\ number_of_records' = number_of_records
              ELSE (third = <<>> \/ Head(third) # PLUS) =>
                   /\ Value(Last(out')) =
                          Error("BadSeparator", 4 * number_of_records + 2)
                   /\ number_of_records' = number_of_records]_vars

\* the second group of a file failed with BadSeparator at line 6
C10_Witness ==
    /\ out # <<>>
    /\ Value(Last(out)) = Error("BadSeparator", 6)
    /\ number_of_records = 1

\* the first byte of the unparsed part is '@' and its third line starts with '+'
HeaderAndSeparatorFound ==
    /\ NumLines(Residual) >= 4
    /\ Head(Residual) = AT
    /\ Line(Residual, 3) # <<>>
    /\ Head(Line(Residual, 3)) = PLUS

\* the third line of the unparsed part repeats a header other than the first
\* line's, a trailing CR left out of both
RepeatedHeaderDiffers ==
    LET name == WithoutCR(Tail(Line(Residual, 1)))
        repeated == WithoutCR(Tail(Line(Residual, 3)))
    IN  repeated # <<>> /\ repeated # name

\* C11: when the unparsed part of the buffer holds a four-line group that
\* starts with '@' and whose third line starts with '+', and n records have
\* been returned: if the third line has content after '+' that differs from
\* the first line's content after '@' (in length or in a byte, a trailing CR
\* left out of both), the call fails with HeaderMismatch at line 4n+2 and n
\* stays; if the content is equal or there is none, the call does not fail
\* with HeaderMismatch.
C11_HeaderMismatch ==
    [][(HeaderAndSeparatorFound /\ out' # out) =>
          IF RepeatedHeaderDiffers
          THEN /\ Value(Last(out')) =
                      Error("HeaderMismatch", 4 * number_of_records + 2)
               /\ number_of_records' = number_of_records
          ELSE Last(out').err # "HeaderMismatch"]_vars

\* the second group of a file failed with HeaderMismatch at line 6: its third
\* line is as long as its name but holds another byte
C11_Witness ==
    /\ out # <<>>
    /\ Value(Last(out)) = Error("HeaderMismatch", 6)
    /\ number_of_records = 1
    /\ Len(Line(Residual, 1)) = Len(Line(Residual, 3))

\* C12: when the unparsed part holds a four-line group that passes the checks
\* of its first and third line, and n records have been returned: if its
\* fourth and second line differ in length (a trailing CR left out of both)
\* the call fails with LengthMismatch at line 4n+3 and n stays, otherwise the
\* call does not fail; and every record ever returned has as many qualities
\* as bases.
C12_LengthMismatch ==
    /\ [][(HeaderAndSeparatorFound /\ ~RepeatedHeaderDiffers /\ out' # out) =>
              IF Len(WithoutCR(Line(Residual, 4)))
                     # Len(WithoutCR(Line(Residual, 2)))
              THEN /\ Value(Last(out')) =
                          Error("LengthMismatch", 4 * number_of_records + 3)
                   /\ number_of_records' = number_of_records
              ELSE Last(out').kind \in {"bool", "record"}]_vars
    /\ [](\A i \in 1 .. Len(out) :
              out[i].kind = "record" =>
                  Len(out[i].sequence) = Len(out[i].qualities))

\* the second group of a file failed with LengthMismatch at line 7 because its
\* qualities are longer than its sequence
C12_Witness ==
    /\ out # <<>>
    /\ Value(Last(out)) = Error("LengthMismatch", 7)
    /\ number_of_records = 1
    /\ Len(Line(Residual, 4)) > Len(Line(Residual, 2))

\* this step is a call of read that returns b""
ReadReturnsEmpty ==
    \/ reader_eof' /\ ~reader_eof
    \/ reads_after_eof' # reads_after_eof

\* the synthetic line feed is the last byte of the buffer: it was written and
\* no PrematureEof has taken it off again
SyntheticPresent ==
    /\ extra_newline
    /\ \A i \in 1 .. Len(out) : out[i].err # "PrematureEof"

\* the unparsed part of the buffer without the synthetic line feed
InputResidual ==
    IF SyntheticPresent /\ Residual # <<>> THEN Front(Residual) ELSE Residual

\* C13: when read returns b"" (the unparsed part then holds fewer than four
\* lines) and n records have been returned: an empty unparsed part ends the
\* iteration with no failure; a part that does not end in LF gets the
\* synthetic LF, once; in every other case the call fails with PrematureEof
\* at line 4n plus the number of LF bytes of the unparsed part, the synthetic
\* LF not counted.
C13_PrematureEofLine ==
    [][ReadReturnsEmpty =>
          IF Residual = <<>>
          THEN eof' /\ out' = out
          ELSE IF ~extra_newline /\ Last(Residual) # LF
          THEN extra_newline' /\ out' = out
          ELSE Value(Last(out')) =
                   Error("PrematureEof",
                         4 * number_of_records + CountByte(InputResidual, LF))]_vars

\* the iteration has come to its end and no call has failed
ParsedWithoutError ==
    /\ out # <<>>
    /\ Last(out).kind = "stop"
    /\ \A i \in 1 .. Len(out) : out[i].kind # "error"

\* the boolean the parser gave back, false if it gave none
SentinelValue == \E i \in 1 .. Len(out) : out[i].kind = "bool" /\ out[i].two_headers

\* fastq_bytes(two_headers) of each record of recs, one after the other
RECURSIVE Serialized(_, _)
Serialized(recs, two_headers) ==
    IF recs = <<>> THEN <<>>
    ELSE fastq_bytes(Head(recs).name, Head(recs).sequence,
                     Head(recs).qualities, two_headers)
             \o Serialized(Tail(recs), two_headers)

\* text from its k-th group of four lines on, every third line written in
\* the style two_headers: '+' alone, or '+' and the content of the first line
RECURSIVE RestyledFrom(_, _, _)
RestyledFrom(text, k, two_headers) ==
    IF NumLines(text) < 4 * k + 4 THEN <<>>
    ELSE Line(text, 4 * k + 1) \o <<LF>> \o Line(text, 4 * k + 2) \o <<LF, PLUS>>
             \o (IF two_headers THEN Tail(Line(text, 4 * k + 1)) ELSE <<>>)
             \o <<LF>> \o Line(text, 4 * k + 4) \o <<LF>>
             \o RestyledFrom(text, k + 1, two_headers)

\* C14: when a file has been parsed to its end without error, the
\* fastq_bytes(two_headers = the boolean given back) of the records returned,
\* in order, are the file with its final LF supplied, CR LF replaced by LF
\* and every third line in the style of the boolean.
C14_SerializeParse ==
    ParsedWithoutError =>
        Serialized(Records(out), SentinelValue) =
            RestyledFrom(WithLFEndings(Terminated(input)), 0, SentinelValue)

\* a file with CR LF line ends, a repeated header and no final LF has been
\* parsed to its end
C14_Witness ==
    /\ ParsedWithoutError
    /\ SentinelValue
    /\ Records(out) # <<>>
    /\ Last(input) # LF
    /\ \E i \in 1 .. Len(input) : input[i] = CR

---------------------------------------------------------------------------
(* Claims about SequenceRecord, under SpecRecord *)

\* the object r, once constructed, has as many qualities as bases if it has
\* qualities, and every field it has is 7-bit ASCII
WellFormed(r) ==
    r._name # None =>
        /\ AsciiOnly(r._name.value)
        /\ AsciiOnly(r._sequence.value)
        /\ r._qualities # None =>
               /\ AsciiOnly(r._qualities.value)
               /\ Len(r._qualities.value) = Len(r._sequence.value)

\* C15: every SequenceRecord, after construction and after any assignments
\* to its attributes, and every record a call returns, has as many qualities
\* as bases if it has qualities, and only 7-bit ASCII fields.
C15_RecordInvariants ==
    /\ WellFormed(seq_record)
    /\ WellFormed(last.result.record)

\* a field given to a call is a str holding a character above 127
NotAscii(o) == o.type = "str" /\ ~AsciiOnly(o.value)

\* C16: SequenceRecord(name, sequence, qualities) returns iff name and
\* sequence are str, qualities is a str or None, no str among them holds a
\* character above 127, and qualities, if a str, is as long as sequence; the
\* object then has these three fields.  Otherwise it raises InvalidType only
\* for a wrong type, NonAscii only for such a character, LengthMismatch only
\* for different lengths, and the object gets no field.
C16_Constructor ==
    last.op = "__init__" =>
        LET name == last.args[1]
            sequence == last.args[2]
            qualities == last.args[3]
            types == /\ name.type = "str"
                     /\ sequence.type = "str"
                     /\ qualities.type \in {"str", "NoneType"}
            ascii == ~NotAscii(name) /\ ~NotAscii(sequence) /\ ~NotAscii(qualities)
            lengths == qualities.type = "str" /\ sequence.type = "str"
                           => Len(qualities.value) = Len(sequence.value)
        IN  IF types /\ ascii /\ lengths
            THEN /\ last.result.kind = "return"
                 /\ seq_record = [NewSequenceRecord EXCEPT
                                      !._name = name, !._sequence = sequence,
                                      !._qualities = qualities]
            ELSE /\ last.result.kind = "raise"
                 /\ seq_record = NewSequenceRecord
                 /\ \/ last.result.err = "InvalidType" /\ ~types
                    \/ last.result.err = "NonAscii" /\ ~ascii
                    \/ last.result.err = "LengthMismatch" /\ ~lengths

\* the constructor has refused qualities longer than the sequence
C16_Witness ==
    /\ last.op = "__init__"
    /\ last.result.err = "LengthMismatch"
    /\ Len(last.args[3].value) > Len(last.args[2].value)
    /\ ~Constructed

\* the offsets (from 1) of the spaces and tabs of name
Whitespace(name) == {i \in 1 .. Len(name) : name[i] \in {SPACE, TAB}}

\* name up to its first space or tab, all of it if it has none
IdOf(name) ==
    IF Whitespace(name) = {} THEN name
    ELSE SubSeq(name, 1, MinOf(Whitespace(name)) - 1)

\* s without the spaces and tabs it starts with
RECURSIVE WithoutLeadingWhitespace(_)
WithoutLeadingWhitespace(s) ==
    IF s # <<>> /\ Head(s) \in {SPACE, TAB} THEN WithoutLeadingWhitespace(Tail(s))
    ELSE s

\* name after its first space or tab and the spaces and tabs that follow it
CommentOf(name) ==
    IF Whitespace(name) = {} THEN <<>>
    ELSE WithoutLeadingWhitespace(
             SubSeq(name, MinOf(Whitespace(name)) + 1, Len(name)))

\* C17: whenever id is read, first or again, before or after assignments to
\* name, it is the current name up to its first space or tab (all of it if
\* there is none); whenever comment is read it is the rest of the current
\* name after that character and the spaces and tabs that follow, None if
\* that is empty.
C17_IdAndComment ==
    /\ last.op = "id" /\ last.result.kind = "return" =>
           last.result.value = Str(IdOf(seq_record._name.value))
    /\ last.op = "comment" /\ last.result.kind = "return" =>
           last.result.value =
               IF CommentOf(seq_record._name.value) = <<>> THEN None
               ELSE Str(CommentOf(seq_record._name.value))

\* C18: record[key] for a slice key returns a new record with the name of
\* record, its sequence[key] and its qualities[key] (None if it has none),
\* and leaves record as it was.
C18_Slicing ==
    /\ [](last.op = "__getitem__" =>
              /\ last.result.kind = "return"
              /\ last.result.record._name = seq_record._name
              /\ last.result.record._sequence =
                     GetSlice(seq_record._sequence, last.key)
              /\ last.result.record._qualities =
                     IF seq_record._qualities = None THEN None
                     ELSE GetSlice(seq_record._qualities, last.key))
    /\ [][last'.op = "__getitem__" => seq_record' = seq_record]_vars

\* the bytes '@' name LF sequence LF '+' (name) LF qualities LF
FastqLayout(name, sequence, qualities, two_headers) ==
    <<AT>> \o name \o <<LF>> \o sequence \o <<LF, PLUS>>
        \o (IF two_headers THEN name ELSE <<>>) \o <<LF>> \o qualities \o <<LF>>

\* C19: fastq_bytes(two_headers) of a record with qualities returns '@' name
\* LF sequence LF '+' (name, when two_headers) LF qualities LF, of length
\* |name| + |sequence| + |qualities| + 6 (+ |name| when two_headers), every
\* byte of it written; of a record without qualities it raises
\* QualitiesRequired and returns nothing.
C19_FastqBytes ==
    last.op = "fastq_bytes" =>
        IF seq_record._qualities = None
        THEN /\ last.result.kind = "raise"
             /\ last.result.err = "QualitiesRequired"
             /\ last.result.value = None
        ELSE LET name == seq_record._name.value
                 sequence == seq_record._sequence.value
                 qualities == seq_record._qualities.value
                 bytes == last.result.value.value
             IN  /\ last.result.kind = "return"
                 /\ last.result.value.type = "bytes"
                 /\ bytes = FastqLayout(name, sequence, qualities, last.two_headers)
                 /\ Len(bytes) = Len(name) + Len(sequence) + Len(qualities) + 6
                                     + (IF last.two_headers THEN Len(name) ELSE 0)
                 /\ \A i \in 1 .. Len(bytes) : bytes[i] # Uninitialized

\* fastq_bytes(two_headers=True) has returned the bytes of a record whose
\* name, sequence and qualities are not empty
C19_Witness ==
    /\ last.op = "fastq_bytes"
    /\ last.two_headers
    /\ last.result.kind = "return"
    /\ Len(seq_record._name.value) > 1
    /\ Len(seq_record._sequence.value) > 1
    /\ Len(seq_record._qualities.value) > 1

\* s from its last element to its first
Reverse(s) == [i \in 1 .. Len(s) |-> s[Len(s) + 1 - i]]

\* C20: reverse_complement returns a new record with the name of the record,
\* a sequence as long as the record's whose byte i is the complement of the
\* record's byte len-1-i, and the record's qualities reversed (None if it has
\* none), and leaves the record as it was.
C20_ReverseComplement ==
    /\ [](last.op = "reverse_complement" =>
              LET sequence == seq_record._sequence.value
                  made == last.result.record
              IN  /\ last.result.kind = "return"
                  /\ made._name = seq_record._name
                  /\ Len(made._sequence.value) = Len(sequence)
                  /\ \A i \in 1 .. Len(sequence) :
                         made._sequence.value[i] =
                             NUCLEOTIDE_COMPLEMENTS(sequence[Len(sequence) + 1 - i])
                  /\ made._qualities =
                         IF seq_record._qualities = None THEN None
                         ELSE Str(Reverse(seq_record._qualities.value)))
    /\ [][last'.op = "reverse_complement" => seq_record' = seq_record]_vars

---------------------------------------------------------------------------
(* SequenceRecord.is_mate and record_ids_match *)

Digit0 == 48
Digit1 == 49
Digit3 == 51
Digit4 == 52

\* The largest size_t.  The model's integers end here; what matters is that
\* it is larger than the length of any str.
SIZE_MAX == 2147483647

\* a difference of two size_t
size_t(n) == IF n < 0 THEN (n + SIZE_MAX) + 1 ELSE n

\* True or False
PyBool(b) == [type |-> "bool", value |-> <<IF b THEN 1 ELSE 0>>]

\* chars[i] where chars points to the data of a str: a character, the NUL
\* that ends them, or for i = -1 the byte in front of the data, which is no
\* part of the str
CharAt(chars, i, before) == IF i < 0 THEN before ELSE chars[i + 1]

\* b'1' <= c <= b'3'
EndsWithNumber(c) == Digit1 <= c /\ c <= Digit3

\* memcmp(header1, header2, n) == 0.  With n above what the two hold, the
\* bytes they hold are compared, and if these are the same the comparison
\* runs on behind them: beyond is what it finds there.
memcmp_equal(header1, header2, n, beyond) ==
    LET held == MinOf({Len(header1), Len(header2)})
    IN  IF n <= held THEN SubSeq(header1, 1, n) = SubSeq(header2, 1, n)
        ELSE SubSeq(header1, 1, held) = SubSeq(header2, 1, held) /\ beyond

record_ids_match(header1, header2, id1_length, header2_length, id1_ends_with_number, before2, beyond) ==
    IF header2_length < id1_length THEN FALSE
    ELSE LET end == CharAt(header2, id1_length, before2)
             id2_ends_with_number ==
                 EndsWithNumber(CharAt(header2, id1_length - 1, before2))
             compared == IF id1_ends_with_number /\ id2_ends_with_number
                         THEN size_t(id1_length - 1)
                         ELSE id1_length
         IN  IF end # NUL /\ end # SPACE /\ end # TAB THEN FALSE
             ELSE memcmp_equal(header1, header2, compared, beyond)

\* SequenceRecord.is_mate; before1 and before2 are the bytes in front of the
\* data of the two names
IsMate(self, other, before1, before2, beyond) ==
    LET header1_chars == PyUnicode_DATA(self._name)
        header2_chars == PyUnicode_DATA(other._name)
        header2_length == PyUnicode_GET_LENGTH(other._name)
        id1_length == strcspn(header1_chars, {SPACE, TAB})
        id1_ends_with_number ==
            EndsWithNumber(CharAt(header1_chars, id1_length - 1, before1))
    IN  Returned(self,
                 PyBool(record_ids_match(header1_chars, header2_chars,
                                         id1_length, header2_length,
                                         id1_ends_with_number, before2, beyond)),
                 NewSequenceRecord)

\* record_names_match(header1, header2)
RecordNamesMatch(self, header1, header2, before1, before2, beyond) ==
    IF ~PyUnicode_CheckExact(header1) THEN Raised(self, "InvalidType")
    ELSE IF ~PyUnicode_IS_COMPACT_ASCII(header1) THEN Raised(self, "NonAscii")
    ELSE IF ~PyUnicode_CheckExact(header2) THEN Raised(self, "InvalidType")
    ELSE IF ~PyUnicode_IS_COMPACT_ASCII(header2) THEN Raised(self, "NonAscii")
    ELSE LET header1_chars == PyUnicode_DATA(header1)
             header2_chars == PyUnicode_DATA(header2)
             header2_length == PyUnicode_GET_LENGTH(header2)
             id1_length == strcspn(header1_chars, {SPACE, TAB})
             id1_ends_with_number ==
                 EndsWithNumber(CharAt(header1_chars, id1_length - 1, before1))
         IN  Returned(self,
                      PyBool(record_ids_match(header1_chars, header2_chars,
                                              id1_length, header2_length,
                                              id1_ends_with_number, before2,
                                              beyond)),
                      NewSequenceRecord)

\* records_are_mates(*args): first is args[0], others are the records behind
\* it; befores are the bytes in front of the data of their names
RecordsAreMates(first, others, before1, befores, beyond) ==
    IF 1 + Len(others) < 2 THEN Raised(first, "InvalidType")
    ELSE LET first_name == PyUnicode_DATA(first._name)
             id_length == strcspn(first_name, {SPACE, TAB})
             id_ends_with_number ==
                 EndsWithNumber(CharAt(first_name, id_length - 1, before1))
         IN  Returned(first,
                      PyBool(\A i \in DOMAIN others :
                                record_ids_match(
                                    first_name, PyUnicode_DATA(others[i]._name),
                                    id_length,
                                    PyUnicode_GET_LENGTH(others[i]._name),
                                    id_ends_with_number, befores[i], beyond)),
                      NewSequenceRecord)

MaxIdLen == 2    \* longest id of a name

IdBytes == {LetterA, Digit0, Digit1, Digit3, Digit4}

\* what follows the id in a name
AfterId == {<<>>, <<SPACE>>, <<TAB, Digit1>>, <<NUL, LetterA>>}

MateNames == {id \o rest : id \in StringsUpTo(IdBytes, MaxIdLen), rest \in AfterId}

\* SequenceRecord(name, "")
MateRecords ==
    {SequenceRecord__init__(NewSequenceRecord, Str(name), Str(<<>>), None).self :
         name \in MateNames}

\* what the byte in front of the data of a str may be
BeforeBytes == {NUL, Digit1}

\* seq_record.is_mate(other)
CallIsMate ==
    /\ last = NoCall
    /\ \E other \in MateRecords, before1 \in BeforeBytes,
          before2 \in BeforeBytes, beyond \in BOOLEAN :
           Called("is_mate", <<other, before1, before2>>, NoKey, FALSE,
                  IsMate(seq_record, other, before1, before2, beyond))

\* other.is_mate(seq_record), for the other of the call before: from here on
\* other is the object the calls are made on
CallIsMateOfOther ==
    /\ last.op = "is_mate"
    /\ \E beyond \in BOOLEAN :
           Called("is_mate", <<seq_record, last.args[3], last.args[2]>>,
                  NoKey, FALSE,
                  IsMate(last.args[1], seq_record, last.args[3], last.args[2],
                         beyond))

\* record_names_match(seq_record.name, other.name)
CallRecordNamesMatch ==
    /\ last = NoCall
    /\ \E other \in MateRecords, before1 \in BeforeBytes,
          before2 \in BeforeBytes, beyond \in BOOLEAN :
           Called("record_names_match", <<other, before1, before2>>, NoKey,
                  FALSE,
                  RecordNamesMatch(seq_record, seq_record._name, other._name,
                                   before1, before2, beyond))

\* records_are_mates(seq_record), records_are_mates(seq_record, other) and
\* records_are_mates(seq_record, other, seq_record)
CallRecordsAreMates ==
    /\ last = NoCall
    /\ \E other \in MateRecords, before1 \in BeforeBytes,
          before2 \in BeforeBytes, beyond \in BOOLEAN :
       \E others \in {<<>>, <<other>>, <<other, seq_record>>} :
           Called("records_are_mates", <<other, before1, before2, others>>,
                  NoKey, FALSE,
                  RecordsAreMates(seq_record, others, before1,
                                  <<before2, before1>>, beyond))

NextMate ==
    \/ CallIsMate
    \/ CallIsMateOfOther
    \/ CallRecordNamesMatch
    \/ CallRecordsAreMates

\* Two records, and no parser at work
InitMate ==
    /\ source = NoRecord
    /\ seq_record \in MateRecords
    /\ last = NoCall
    /\ NoBamIter
    /\ NewFastqIter(<<>>, 1)

SpecMate == InitMate /\ [][NextMate]_vars

---------------------------------------------------------------------------
(* Claims about is_mate *)

\* the ids are the same, or the same up to a last character that is '1', '2'
\* or '3' in both
SameIds(id1, id2) ==
    /\ Len(id1) = Len(id2)
    /\ \/ id1 = id2
       \/ /\ id1 # <<>>
          /\ Last(id1) \in Digit1 .. Digit3
          /\ Last(id2) \in Digit1 .. Digit3
          /\ Front(id1) = Front(id2)

\* C21: a.is_mate(b) is true iff the ids of a and b (each name up to its
\* first space or tab) are as long as each other and either are equal or both
\* end in '1', '2' or '3' and are equal without that last character.
C21_IsMate ==
    last.op = "is_mate" =>
        last.result.value =
            PyBool(SameIds(IdOf(seq_record._name.value),
                           IdOf(last.args[1]._name.value)))

\* FASTQ header: any ASCII except LF and CR, not starting with '@' or '+'
WellFormedHeader(name) ==
    /\ \A i \in 1 .. Len(name) : name[i] < 128 /\ name[i] \notin {LF, CR}
    /\ name # <<>> => name[1] \notin {AT, PLUS}

\* C22: for records with well-formed names, a.is_mate(a) is true, and
\* b.is_mate(a) gives what a.is_mate(b) gave.
C22_ReflexiveSymmetric ==
    /\ [](/\ last.op = "is_mate"
          /\ WellFormedHeader(seq_record._name.value)
          /\ last.args[1] = seq_record
          /\ last.args[2] = last.args[3]
          => last.result.value = PyBool(TRUE))
    /\ [][/\ last.op = "is_mate"
          /\ last'.op = "is_mate"
          /\ WellFormedHeader(seq_record._name.value)
          /\ WellFormedHeader(seq_record'._name.value)
          => last'.result.value = last.result.value]_vars

---------------------------------------------------------------------------
(* paired_fastq_heads *)

PyTuple(items) == [type |-> "tuple", value |-> items]

\* a call that is yet to be made, with its arguments
Pending(args) == Call("", args, NoKey, FALSE, NoResult)

\* linebreaks == 4 taken for linebreaks == 3
FourthLinebreakAtThree(linebreaks) == linebreaks = 3

\* if linebreaks == 4
FourthLinebreak(linebreaks) == linebreaks = 4

\* The loop of paired_fastq_heads, from one pass on; offsets stand for the
\* pointers into data1 and data2.
RECURSIVE HeadsLoop(_, _, _, _, _, _, _, _, _)
HeadsLoop(data1, data2, data1_end, data2_end, pos1, pos2, linebreaks, record_start1, record_start2) ==
    LET found1 == memchr(data1, pos1, LF, data1_end - pos1)
        found2 == memchr(data2, pos2, LF, data2_end - pos2)
    IN  IF found1 = NULL \/ found2 = NULL
        THEN <<record_start1, record_start2>>
        ELSE IF FourthLinebreak(linebreaks + 1)
        THEN HeadsLoop(data1, data2, data1_end, data2_end, found1 + 1,
                       found2 + 1, 0, found1 + 1, found2 + 1)
        ELSE HeadsLoop(data1, data2, data1_end, data2_end, found1 + 1,
                       found2 + 1, linebreaks + 1, record_start1, record_start2)

\* paired_fastq_heads(buf1, buf2, end1, end2): the two buffers after the call
\* and the tuple returned
paired_fastq_heads(buf1, buf2, end1, end2) ==
    LET data1_end == MinOf({end1, Len(buf1)})
        data2_end == MinOf({end2, Len(buf2)})
    IN  [buf1 |-> buf1, buf2 |-> buf2,
         result |-> Returned(NewSequenceRecord,
                             PyTuple(HeadsLoop(buf1, buf2, data1_end, data2_end,
                                               0, 0, 0, 0, 0)),
                             NewSequenceRecord).result]

MaxHeadLines == 8    \* most lines of a buffer

\* lines, then tail bytes of a line that is not ended
RECURSIVE HeadBuffer(_, _, _)
HeadBuffer(lines, width, tail) ==
    IF lines = 0 THEN [i \in 1 .. tail |-> LetterA]
    ELSE [i \in 1 .. width |-> LetterA] \o <<LF>> \o HeadBuffer(lines - 1, width, tail)

HeadBuffers ==
    {HeadBuffer(lines, width, tail) :
        lines \in 0 .. MaxHeadLines, width \in 0 .. 1, tail \in 0 .. 1}

\* the ends that can be given with a buffer: within it, at its end, beyond it
HeadEnds(buf) == 0 .. (Len(buf) + 1)

CallPairedFastqHeads ==
    /\ last.op = ""
    /\ LET made == paired_fastq_heads(last.args[1], last.args[2],
                                      last.args[3], last.args[4])
       IN  last' = Call("paired_fastq_heads",
                        <<made.buf1, made.buf2, last.args[3], last.args[4]>>,
                        NoKey, FALSE, made.result)
    /\ UNCHANGED <<parser, seq_record, bams, decode_bam_sequence>>

NextHeads == CallPairedFastqHeads

\* Two buffers and two ends, and no parser at work
InitHeads ==
    /\ source = NoRecord
    /\ seq_record = NewSequenceRecord
    /\ NoBamIter
    /\ \E buf1 \in HeadBuffers, buf2 \in HeadBuffers :
           \E end1 \in HeadEnds(buf1), end2 \in HeadEnds(buf2) :
               last = Pending(<<buf1, buf2, end1, end2>>)
    /\ NewFastqIter(<<>>, 1)

SpecHeads == InitHeads /\ [][NextHeads]_vars

---------------------------------------------------------------------------
(* Claims about paired_fastq_heads *)

\* the number of LF in buf[:length]
LineFeedsIn(buf, length) == Cardinality({i \in 1 .. length : buf[i] = LF})

\* the lengths up to end at which buf[:length] is empty or ends after a LF
HeadLengths(buf, end) ==
    {length \in 0 .. MinOf({end, Len(buf)}) : length = 0 \/ buf[length] = LF}

\* the pairs of lengths of heads with as many LF as each other, a multiple
\* of four
PairedHeads(buf1, buf2, end1, end2) ==
    {pair \in HeadLengths(buf1, end1) \X HeadLengths(buf2, end2) :
        /\ LineFeedsIn(buf1, pair[1]) = LineFeedsIn(buf2, pair[2])
        /\ LineFeedsIn(buf1, pair[1]) % 4 = 0}

\* C23: paired_fastq_heads(buf1, buf2, end1, end2) returns (len1, len2) such
\* that buf1[:len1] and buf2[:len2] are empty or end right after a LF, hold as
\* many LF as each other, a multiple of four, and no such pair within end1 and
\* end2 is larger; that is (0, 0) when there is no other; the buffers are left
\* as they were.
C23_PairedFastqHeads ==
    [][last'.op = "paired_fastq_heads" =>
           LET paired == PairedHeads(last.args[1], last.args[2],
                                     last.args[3], last.args[4])
               returned == last'.result.value.value
           IN  /\ last'.result.kind = "return"
               /\ returned \in paired
               /\ \A pair \in paired :
                      pair[1] <= returned[1] /\ pair[2] <= returned[2]
               /\ paired = {<<0, 0>>} => returned = <<0, 0>>
               /\ last'.args = last.args]_vars

\* two records are skipped in buffers of lines of different lengths, and a
\* third that is whole in one buffer only is not
C23_Witness ==
    /\ last.op = "paired_fastq_heads"
    /\ last.result.value.value[1] > last.result.value.value[2]
    /\ LineFeedsIn(last.args[2], last.result.value.value[2]) = 8
    /\ last.result.value.value[1] < MinOf({last.args[3], Len(last.args[1])})

---------------------------------------------------------------------------
(* string_is_ascii: the three implementations, on a string that starts at   *)
(* the memory address address.  Offsets into the string stand for pointers. *)

sizeof_uint64_t == 8
sizeof_longword == 16    \* __m128i
AllBits == 255           \* a byte of a sign-extended negative char
DEL == 127

\* the function has returned 0 from within a loop
ReturnedZero == -1

\* *char_ptr & ASCII_MASK_1BYTE
HighBit(byte) == (byte \div ASCII_MASK_1BYTE) % 2 = 1

\* the word mask applied to the first byte of the word only
WordHighBitsOfFirstByte(word) == HighBit(word[1])

\* word & ASCII_MASK_8BYTE, and _mm_movemask_epi8(word), for a word given as
\* its bytes: not zero
WordHighBits(word) == \E i \in 1 .. Len(word) : HighBit(word[i])

\* *longword_ptr: the size bytes from offset at on
WordAt(string, at, size) == SubSeq(string, at + 1, at + size)

\* a | b for two bytes
RECURSIVE BitOr(_, _)
BitOr(a, b) ==
    IF a = 0 THEN b
    ELSE IF b = 0 THEN a
    ELSE (IF a % 2 = 1 \/ b % 2 = 1 THEN 1 ELSE 0) + 2 * BitOr(a \div 2, b \div 2)

\* a | b for two words of as many bytes
WordOr(a, b) == [i \in 1 .. Len(a) |-> BitOr(a[i], b[i])]

\* a char made a word of size bytes, least significant byte first: where char
\* is signed a byte above 127 is negative and its sign fills the word
CharAsWord(byte, size, char_is_signed) ==
    [i \in 1 .. size |->
        IF i = 1 THEN byte
        ELSE IF char_is_signed /\ HighBit(byte) THEN AllBits ELSE 0]

ZeroWord(size) == [i \in 1 .. size |-> 0]

\* ascii_check.h: the loop over single bytes, which returns 0 at a byte with
\* the high bit set; aligning, it ends at an address that is a multiple of
\* size.  Gives the offset reached.
RECURSIVE CharLoopEarlyExit(_, _, _, _, _)
CharLoopEarlyExit(string, address, at, aligning, size) ==
    IF at = Len(string) \/ (aligning /\ (address + at) % size = 0) THEN at
    ELSE IF HighBit(string[at + 1]) THEN ReturnedZero
    ELSE CharLoopEarlyExit(string, address, at + 1, aligning, size)

\* ascii_check.h: the loop over words of 8 bytes
RECURSIVE WordLoopEarlyExit(_, _)
WordLoopEarlyExit(string, at) ==
    IF Len(string) - at < sizeof_uint64_t THEN at
    ELSE IF WordHighBits(WordAt(string, at, sizeof_uint64_t)) THEN ReturnedZero
    ELSE WordLoopEarlyExit(string, at + sizeof_uint64_t)

\* string_is_ascii of ascii_check.h
string_is_ascii_early_exit(string, address) ==
    LET aligned == CharLoopEarlyExit(string, address, 0, TRUE, sizeof_uint64_t)
        words == IF aligned = ReturnedZero THEN ReturnedZero
                 ELSE WordLoopEarlyExit(string, aligned)
        rest == IF words = ReturnedZero THEN ReturnedZero
                ELSE CharLoopEarlyExit(string, address, words, FALSE,
                                       sizeof_uint64_t)
    IN  rest # ReturnedZero

\* The loops that accumulate, of the two other implementations.  all_chars
\* is a word of char_size bytes, all_words a word of size bytes; each loop
\* gives the offset reached and the two accumulators.
RECURSIVE CharLoopOr(_, _, _, _, _, _, _)
CharLoopOr(string, address, acc, aligning, size, char_size, char_is_signed) ==
    IF acc.at = Len(string) \/ (aligning /\ (address + acc.at) % size = 0)
    THEN acc
    ELSE CharLoopOr(string, address,
                    [acc EXCEPT
                         !.at = @ + 1,
                         !.all_chars =
                             WordOr(@, CharAsWord(string[acc.at + 1], char_size,
                                                  char_is_signed))],
                    aligning, size, char_size, char_is_signed)

RECURSIVE WordLoopOr(_, _, _)
WordLoopOr(string, acc, size) ==
    IF Len(string) - acc.at < size THEN acc
    ELSE WordLoopOr(string,
                    [acc EXCEPT
                         !.at = @ + size,
                         !.all_words = WordOr(@, WordAt(string, acc.at, size))],
                    size)

\* the three loops in turn
Accumulated(string, address, size, char_size, char_is_signed) ==
    LET start == [at |-> 0, all_chars |-> ZeroWord(char_size),
                  all_words |-> ZeroWord(size)]
        aligned == CharLoopOr(string, address, start, TRUE, size, char_size,
                              char_is_signed)
        words == WordLoopOr(string, aligned, size)
    IN  CharLoopOr(string, address, words, FALSE, size, char_size,
                   char_is_signed)

\* string_is_ascii with one uint64_t all_chars for bytes and words
string_is_ascii_or(string, address, char_is_signed) ==
    LET acc == Accumulated(string, address, sizeof_uint64_t, sizeof_uint64_t,
                           char_is_signed)
    IN  ~WordHighBits(WordOr(acc.all_chars, acc.all_words))

\* string_is_ascii of bam.h, with SSE2: a char all_chars and a __m128i
\* all_words
string_is_ascii_sse2(string, address, char_is_signed) ==
    LET acc == Accumulated(string, address, sizeof_longword, 1, char_is_signed)
    IN  ~(WordHighBits(acc.all_words) \/ HighBit(acc.all_chars[1]))

MaxAsciiLen == 33    \* longest string checked

\* length bytes 'A', the one at offset at (if any) replaced by byte
OneOddByte(length, at, byte) ==
    [i \in 1 .. length |-> IF i = at + 1 THEN byte ELSE LetterA]

OddBytes == {DEL, HighByte}

AsciiStrings ==
    {OneOddByte(length, at, byte) :
        length \in 0 .. MaxAsciiLen, at \in 0 .. MaxAsciiLen, byte \in OddBytes}

\* the addresses a string can start at, up to a multiple of the longest word
Addresses == 0 .. (sizeof_longword - 1)

\* the call made on the string, address and signedness of char that are the
\* pending arguments
StringIsAsciiCalled(op, is_ascii) ==
    /\ last.op = ""
    /\ last' = Call(op, last.args, NoKey, FALSE,
                    Returned(NewSequenceRecord, PyBool(is_ascii),
                             NewSequenceRecord).result)
    /\ UNCHANGED <<parser, seq_record, bams, decode_bam_sequence>>

CallEarlyExit ==
    StringIsAsciiCalled("string_is_ascii (early exit)",
                        string_is_ascii_early_exit(last.args[1], last.args[2]))

CallOrAccumulating ==
    StringIsAsciiCalled("string_is_ascii (or)",
                        string_is_ascii_or(last.args[1], last.args[2],
                                           last.args[3]))

CallSse2 ==
    StringIsAsciiCalled("string_is_ascii (sse2)",
                        string_is_ascii_sse2(last.args[1], last.args[2],
                                             last.args[3]))

NextAscii ==
    \/ CallEarlyExit
    \/ CallOrAccumulating
    \/ CallSse2

InitAscii ==
    /\ source = NoRecord
    /\ seq_record = NewSequenceRecord
    /\ NoBamIter
    /\ \E string \in AsciiStrings, address \in Addresses,
          char_is_signed \in BOOLEAN :
           last = Pending(<<string, address, char_is_signed>>)
    /\ NewFastqIter(<<>>, 1)

SpecAscii == InitAscii /\ [][NextAscii]_vars

---------------------------------------------------------------------------
(* Claims about string_is_ascii *)

StringIsAsciiOps ==
    {"string_is_ascii (early exit)", "string_is_ascii (or)",
     "string_is_ascii (sse2)"}

\* C24: for every byte string, empty or not, shorter or longer than a word,
\* at any alignment, each of the three implementations of string_is_ascii
\* returns true iff every byte is below 0x80, and so does the check the
\* parser's model uses.
C24_StringIsAscii ==
    last.op \in StringIsAsciiOps =>
        /\ last.result.value =
               PyBool(\A i \in 1 .. Len(last.args[1]) : last.args[1][i] < 128)
        /\ last.result.value = PyBool(string_is_ascii(last.args[1]))

\* a byte above 0x7f found by the word loop of the SSE2 implementation in a
\* string that starts off a word boundary
C24_Witness ==
    /\ last.op = "string_is_ascii (sse2)"
    /\ last.result.value = PyBool(FALSE)
    /\ last.args[2] % sizeof_longword = 1
    /\ Len(last.args[1]) = MaxAsciiLen
    /\ last.args[1][sizeof_longword + 1] = HighByte

---------------------------------------------------------------------------
(* bam.h: the decoders of the packed sequence and of the qualities *)

nuc_lookup == <<61, 65, 67, 77, 71, 82, 83, 86, 84, 87, 89, 72, 75, 68, 66, 78>>

code2base ==
    <<
      61, 61, 61, 65, 61, 67, 61, 77, 61, 71, 61, 82, 61, 83, 61, 86,
      61, 84, 61, 87, 61, 89, 61, 72, 61, 75, 61, 68, 61, 66, 61, 78,
      65, 61, 65, 65, 65, 67, 65, 77, 65, 71, 65, 82, 65, 83, 65, 86,
      65, 84, 65, 87, 65, 89, 65, 72, 65, 75, 65, 68, 65, 66, 65, 78,
      67, 61, 67, 65, 67, 67, 67, 77, 67, 71, 67, 82, 67, 83, 67, 86,
      67, 84, 67, 87, 67, 89, 67, 72, 67, 75, 67, 68, 67, 66, 67, 78,
      77, 61, 77, 65, 77, 67, 77, 77, 77, 71, 77, 82, 77, 83, 77, 86,
      77, 84, 77, 87, 77, 89, 77, 72, 77, 75, 77, 68, 77, 66, 77, 78,
      71, 61, 71, 65, 71, 67, 71, 77, 71, 71, 71, 82, 71, 83, 71, 86,
      71, 84, 71, 87, 71, 89, 71, 72, 71, 75, 71, 68, 71, 66, 71, 78,
      82, 61, 82, 65, 82, 67, 82, 77, 82, 71, 82, 82, 82, 83, 82, 86,
      82, 84, 82, 87, 82, 89, 82, 72, 82, 75, 82, 68, 82, 66, 82, 78,
      83, 61, 83, 65, 83, 67, 83, 77, 83, 71, 83, 82, 83, 83, 83, 86,
      83, 84, 83, 87, 83, 89, 83, 72, 83, 75, 83, 68, 83, 66, 83, 78,
      86, 61, 86, 65, 86, 67, 86, 77, 86, 71, 86, 82, 86, 83, 86, 86,
      86, 84, 86, 87, 86, 89, 86, 72, 86, 75, 86, 68, 86, 66, 86, 78,
      84, 61, 84, 65, 84, 67, 84, 77, 84, 71, 84, 82, 84, 83, 84, 86,
      84, 84, 84, 87, 84, 89, 84, 72, 84, 75, 84, 68, 84, 66, 84, 78,
      87, 61, 87, 65, 87, 67, 87, 77, 87, 71, 87, 82, 87, 83, 87, 86,
      87, 84, 87, 87, 87, 89, 87, 72, 87, 75, 87, 68, 87, 66, 87, 78,
      89, 61, 89, 65, 89, 67, 89, 77, 89, 71, 89, 82, 89, 83, 89, 86,
      89, 84, 89, 87, 89, 89, 89, 72, 89, 75, 89, 68, 89, 66, 89, 78,
      72, 61, 72, 65, 72, 67, 72, 77, 72, 71, 72, 82, 72, 83, 72, 86,
      72, 84, 72, 87, 72, 89, 72, 72, 72, 75, 72, 68, 72, 66, 72, 78,
      75, 61, 75, 65, 75, 67, 75, 77, 75, 71, 75, 82, 75, 83, 75, 86,
      75, 84, 75, 87, 75, 89, 75, 72, 75, 75, 75, 68, 75, 66, 75, 78,
      68, 61, 68, 65, 68, 67, 68, 77, 68, 71, 68, 82, 68, 83, 68, 86,
      68, 84, 68, 87, 68, 89, 68, 72, 68, 75, 68, 68, 68, 66, 68, 78,
      66, 61, 66, 65, 66, 67, 66, 77, 66, 71, 66, 82, 66, 83, 66, 86,
      66, 84, 66, 87, 66, 89, 66, 72, 66, 75, 66, 68, 66, 66, 66, 78,
      78, 61, 78, 65, 78, 67, 78, 77, 78, 71, 78, 82, 78, 83, 78, 86,
      78, 84, 78, 87, 78, 89, 78, 72, 78, 75, 78, 68, 78, 66, 78, 78
    >>

\* decode_bam_sequence_default with both bases of a byte taken from its
\* upper half
decode_bam_sequence_upper_twice(encoded_sequence, length) ==
    [i \in 1 .. length |->
        nuc_lookup[encoded_sequence[(i + 1) \div 2] \div 16 + 1]]

\* decode_bam_sequence_default: two bases for each byte from code2base, and
\* for an odd length the last base from the upper half of the last byte
decode_bam_sequence_default(encoded_sequence, length) ==
    LET length_2 == length \div 2
    IN  [i \in 1 .. length |->
            IF i <= 2 * length_2
            THEN code2base[encoded_sequence[(i + 1) \div 2] * 2 + 2 - (i % 2)]
            ELSE nuc_lookup[encoded_sequence[length_2 + 1] \div 16 + 1]]

\* DecodedVector without the unpack instructions: the bases of the upper
\* halves, then those of the lower halves
DecodedVectorNotInterleaved(encoded) ==
    [i \in 1 .. 32 |->
        IF i <= 16 THEN nuc_lookup[((encoded[i] \div 16) % 16) + 1]
        ELSE nuc_lookup[(encoded[i - 16] % 16) + 1]]

\* the 32 bases of one pass of the loop of decode_bam_sequence_ssse3, from
\* the 16 bytes encoded: upper and lower halves looked up in nuc_lookup and
\* interleaved
DecodedVector(encoded) ==
    LET encoded_upper == [j \in 1 .. 16 |-> (encoded[j] \div 16) % 16]
        encoded_lower == [j \in 1 .. 16 |-> encoded[j] % 16]
        nucs_upper == [j \in 1 .. 16 |-> nuc_lookup[encoded_upper[j] + 1]]
        nucs_lower == [j \in 1 .. 16 |-> nuc_lookup[encoded_lower[j] + 1]]
    IN  [i \in 1 .. 32 |->
            IF i % 2 = 1 THEN nucs_upper[(i + 1) \div 2]
            ELSE nucs_lower[i \div 2]]

\* decode_bam_sequence_ssse3, from the offset dest_cursor of the bases on
RECURSIVE decode_bam_sequence_ssse3_from(_, _, _)
decode_bam_sequence_ssse3_from(encoded_sequence, length, dest_cursor) ==
    IF dest_cursor < length - (2 * sizeof_longword - 1)
    THEN DecodedVector(SubSeq(encoded_sequence, dest_cursor \div 2 + 1,
                              dest_cursor \div 2 + sizeof_longword))
         \o decode_bam_sequence_ssse3_from(encoded_sequence, length,
                                           dest_cursor + 2 * sizeof_longword)
    ELSE decode_bam_sequence_default(
             SubSeq(encoded_sequence, dest_cursor \div 2 + 1,
                    Len(encoded_sequence)),
             length - dest_cursor)

decode_bam_sequence_ssse3(encoded_sequence, length) ==
    decode_bam_sequence_ssse3_from(encoded_sequence, length, 0)

\* the function decode_bam_sequence points to
DecodeBamSequence(encoded_sequence, length) ==
    IF decode_bam_sequence = "decode_bam_sequence_ssse3"
    THEN decode_bam_sequence_ssse3(encoded_sequence, length)
    ELSE decode_bam_sequence_default(encoded_sequence, length)

\* what decode_bam_sequence_dispatch can leave in the pointer when the
\* library is loaded, and the initial value where it is not compiled
DecodeBamSequenceFunctions ==
    {"decode_bam_sequence_default", "decode_bam_sequence_ssse3"}

\* dest[i] = encoded_qualities[i] + 33 in uint8_t
decode_bam_qualities(encoded_qualities, length) ==
    [i \in 1 .. length |-> (encoded_qualities[i] + 33) % 256]

---------------------------------------------------------------------------
(* BamIter.  An object is a record of its fields, of the file it reads      *)
(* (its bytes and the position of the reader) and of what its calls gave    *)
(* back.  Pointers into read_in_buffer are offsets from its start.          *)

LetterM == 77
SOH == 1

BamMagic == <<LetterB, LetterA, LetterM, SOH>>

sizeof_BamRecordHeader == 36
sizeof_uint32_t == 4
UnmappedRead == 4    \* the flag of an unmapped single read

\* int.from_bytes(bytes, "little", signed=False), and a little-endian
\* unsigned integer read from memory
RECURSIVE int_from_bytes(_)
int_from_bytes(bytes) ==
    IF bytes = <<>> THEN 0 ELSE bytes[1] + 256 * int_from_bytes(Tail(bytes))

\* the unsigned integer of size bytes at offset at of buf
UintAt(buf, at, size) == int_from_bytes(SubSeq(buf, at + 1, at + size))

\* BamRecordHeader read at offset at: the fields that are used
BamRecordHeader(buf, at) ==
    [block_size |-> UintAt(buf, at, 4),
     l_read_name |-> UintAt(buf, at + 12, 1),
     n_cigar_op |-> UintAt(buf, at + 16, 2),
     flag |-> UintAt(buf, at + 18, 2),
     l_seq |-> UintAt(buf, at + 20, 4)]

\* what a call of __next__ gave back: a record, StopIteration or an error;
\* and for these two the bytes left over and the bytes read in the call of
\* _read_into_buffer that raised
NoRefill == [leftover_size |-> -1, new_bytes_size |-> -1]

BamOutcome(kind, made, err, refill) ==
    [kind |-> kind, record |-> made, err |-> err, refill |-> refill]

\* fileobj.read(requested) when the reader is at pos: as many bytes as asked
\* for, or fewer at the end of the file or if the read is a short one
FileRead(file, at, requested, short) ==
    LET available == MinOf({requested, Len(file) - at})
        size == IF short /\ available > 0 THEN available - 1 ELSE available
    IN  SubSeq(file, at + 1, at + size)

\* BamIter.__cinit__: the loop over the references from reference i on, the
\* reader at pos; read counts the calls of read, and the call number short_at
\* is a short one.  Gives the position reached, the reads made and whether
\* one fell short.
RECURSIVE SkipReferences(_, _, _, _, _, _, _)
SkipReferences(file, at, i, n_ref, read, short_at, reads) ==
    IF i = n_ref THEN [pos |-> at, reads |-> reads, truncated |-> FALSE]
    ELSE LET l_name_obj == FileRead(file, at, 4, read = short_at)
             l_name == int_from_bytes(l_name_obj)
             reference_chunk_size == l_name + 4
             reference_chunk ==
                 FileRead(file, at + 4, reference_chunk_size, read + 1 = short_at)
         IN  IF Len(l_name_obj) < 4
             THEN [pos |-> at + Len(l_name_obj),
                   reads |-> Append(reads, <<4, Len(l_name_obj)>>),
                   truncated |-> TRUE]
             ELSE IF Len(reference_chunk) < reference_chunk_size
             THEN [pos |-> at + 4 + Len(reference_chunk),
                   reads |-> reads \o <<<<4, 4>>, <<reference_chunk_size,
                                                   Len(reference_chunk)>>>>,
                   truncated |-> TRUE]
             ELSE SkipReferences(file, at + 4 + reference_chunk_size, i + 1,
                                 n_ref, read + 2, short_at,
                                 reads \o <<<<4, 4>>, <<reference_chunk_size,
                                                        reference_chunk_size>>>>)

\* BamIter before __cinit__, with the arguments it is about to get
NewBamIter(file, read_in_size) ==
    [state |-> "new", file |-> file, pos |-> 0, read_in_size |-> read_in_size,
     header |-> <<>>, read_in_buffer |-> <<>>, read_in_buffer_size |-> 0,
     record_start |-> 0, buffer_end |-> 0, number_of_records |-> 0,
     out |-> <<>>, reads |-> <<>>, err |-> ""]

\* __cinit__ raised err when the reader was at pos
CinitRaised(self, err, at, reads) ==
    [self EXCEPT !.state = "failed", !.err = err, !.pos = at, !.reads = reads]

\* a check of the magic that takes any four bytes
AnyMagic(magic_and_header_size) == TRUE

\* magic_and_header_size[:4] == b"BAM\1"
MagicIsBam(magic_and_header_size) ==
    SubSeq(magic_and_header_size, 1, 4) = BamMagic

\* BamIter.__cinit__(fileobj, read_in_size); short_at is the number of the
\* call of read that is a short one, 0 if none is
BamIter__cinit__(self, short_at) ==
    LET file == self.file
        magic_and_header_size == FileRead(file, 0, 8, short_at = 1)
        first == <<<<8, Len(magic_and_header_size)>>>>
        l_text == int_from_bytes(SubSeq(magic_and_header_size, 5, 8))
        header == FileRead(file, 8, l_text, short_at = 2)
        second == Append(first, <<l_text, Len(header)>>)
        n_ref_obj == FileRead(file, 8 + l_text, 4, short_at = 3)
        third == Append(second, <<4, Len(n_ref_obj)>>)
        n_ref == int_from_bytes(n_ref_obj)
        skipped == SkipReferences(file, 8 + l_text + 4, 0, n_ref, 4, short_at,
                                  third)
    IN  IF self.read_in_size < 4
        THEN CinitRaised(self, "InvalidReadInSize", 0, <<>>)
        ELSE IF Len(magic_and_header_size) < 8
        THEN CinitRaised(self, "Truncated", Len(magic_and_header_size), first)
        ELSE IF ~MagicIsBam(magic_and_header_size)
        THEN CinitRaised(self, "BadMagic", 8, first)
        ELSE IF Len(header) < l_text
        THEN CinitRaised(self, "Truncated", 8 + Len(header), second)
        ELSE IF Len(n_ref_obj) < 4
        THEN CinitRaised(self, "Truncated", 8 + l_text + Len(n_ref_obj), third)
        ELSE IF skipped.truncated
        THEN CinitRaised(self, "Truncated", skipped.pos, skipped.reads)
        ELSE [self EXCEPT !.state = "ready", !.header = header,
                          !.pos = skipped.pos, !.reads = skipped.reads]

\* the bytes _read_into_buffer asks the file for
RefillSize(self) ==
    LET leftover_size == self.buffer_end - self.record_start
        block_size == UintAt(self.read_in_buffer, self.record_start, 4)
    IN  IF leftover_size >= 4
        THEN (IF block_size > self.read_in_size THEN block_size
              ELSE self.read_in_size)
        ELSE self.read_in_size - leftover_size

\* elif new_bytes_size == 0 tested before if new_buffer_size == 0
RefillRaisesTruncatedFirst(new_buffer_size, new_bytes_size) ==
    IF new_bytes_size = 0 THEN "Truncated"
    ELSE IF new_buffer_size = 0 THEN "StopIteration"
    ELSE ""

\* what _read_into_buffer raises, if anything
RefillRaises(new_buffer_size, new_bytes_size) ==
    IF new_buffer_size = 0 THEN "StopIteration"
    ELSE IF new_bytes_size = 0 THEN "Truncated"
    ELSE ""

\* BamIter._read_into_buffer, in which read gives new_bytes, and the
\* continue or the exception that ends the call of __next__
BamIter_read_into_buffer(self, new_bytes) ==
    LET leftover_size == self.buffer_end - self.record_start
        moved == SubSeq(self.read_in_buffer, self.record_start + 1,
                        self.buffer_end)
        new_bytes_size == Len(new_bytes)
        new_buffer_size == leftover_size + new_bytes_size
        raised == RefillRaises(new_buffer_size, new_bytes_size)
        refill == [leftover_size |-> leftover_size,
                   new_bytes_size |-> new_bytes_size]
        emptied == [self EXCEPT !.read_in_buffer = moved,
                                !.record_start = 0,
                                !.buffer_end = leftover_size,
                                !.pos = @ + new_bytes_size]
    IN  IF raised = "StopIteration"
        THEN [emptied EXCEPT
                  !.out = Append(@, BamOutcome("stop", NewSequenceRecord, "",
                                               refill))]
        ELSE IF raised # ""
        THEN [emptied EXCEPT
                  !.out = Append(@, BamOutcome("error", NewSequenceRecord,
                                               raised, refill))]
        ELSE [emptied EXCEPT
                  !.read_in_buffer = moved \o new_bytes,
                  !.read_in_buffer_size =
                      IF new_buffer_size > @ THEN new_buffer_size ELSE @,
                  !.buffer_end = new_buffer_size]

\* if record_start + 4 >= buffer_end, or if record_end > buffer_end
NeedsRefill(self) ==
    IF self.record_start + 4 >= self.buffer_end THEN TRUE
    ELSE self.record_start + 4
             + UintAt(self.read_in_buffer, self.record_start, 4) > self.buffer_end

\* header.flag != 4 with the flag taken for one byte
FlagUnsupportedLowByte(flag) == flag % 256 # UnmappedRead

\* if header.flag != 4
FlagUnsupported(flag) == flag # UnmappedRead

\* BamIter.__next__ from the record that is whole in the buffer on
BamIter_record(self) ==
    LET buf == self.read_in_buffer
        start == self.record_start
        header == BamRecordHeader(buf, start)
        record_end == start + 4 + header.block_size
        bam_name_start == start + sizeof_BamRecordHeader
        bam_seq_start == bam_name_start + header.l_read_name
                             + header.n_cigar_op * sizeof_uint32_t
        name_length == header.l_read_name - 1
        seq_length == header.l_seq
        encoded_seq_length == (seq_length + 1) \div 2
        bam_qual_start == bam_seq_start + encoded_seq_length
        name == SubSeq(buf, bam_name_start + 1, bam_name_start + name_length)
        sequence ==
            DecodeBamSequence(SubSeq(buf, bam_seq_start + 1,
                                     bam_seq_start + encoded_seq_length),
                              seq_length)
        qualities ==
            decode_bam_qualities(SubSeq(buf, bam_qual_start + 1,
                                        bam_qual_start + seq_length),
                                 seq_length)
        made == [NewSequenceRecord EXCEPT !._name = Str(name),
                                          !._sequence = Str(sequence),
                                          !._qualities = Str(qualities)]
    IN  IF FlagUnsupported(header.flag)
        THEN [self EXCEPT
                  !.out = Append(@, BamOutcome("error", NewSequenceRecord,
                                               "Unsupported", NoRefill))]
        ELSE [self EXCEPT
                  !.out = Append(@, BamOutcome("record", made, "", NoRefill)),
                  !.number_of_records = @ + 1,
                  !.record_start = record_end]

\* the offset behind the last byte __next__ reads of the record at
\* record_start: bam_qual_start + seq_length
RecordReadEnd(self) ==
    LET header == BamRecordHeader(self.read_in_buffer, self.record_start)
    IN  self.record_start + sizeof_BamRecordHeader + header.l_read_name
            + header.n_cigar_op * sizeof_uint32_t
            + (header.l_seq + 1) \div 2 + header.l_seq

\* name_length -= 1 in the uint32_t name_length that is 0
NameLengthWraps(self) ==
    BamRecordHeader(self.read_in_buffer, self.record_start).l_read_name = 0

\* memcpy and the decoders stay within the bytes the buffer holds
ReadsInsideBuffer(self) ==
    ~NameLengthWraps(self) /\ RecordReadEnd(self) <= self.buffer_end

\* the process ended by a read or a write of memory that is not its own
Crashed(self) == [self EXCEPT !.state = "failed", !.err = "crash"]

\* the byte values the memory behind the end of the buffer holds: all
\* bytes 0, or all bytes 0xff
StrayBytes == {NUL, AllBits}

\* BamIter.__next__ from the record that is whole in the buffer on, with
\* what it can make of a header that sends it past the end of the buffer:
\* with a name_length of 2^32 - 1 PyUnicode_New fails or memcpy leaves the
\* memory of the process; else the bytes behind the buffer are decoded as
\* they are found, or the process ends.
BamIter_record_outcomes(self) ==
    IF FlagUnsupported(BamRecordHeader(self.read_in_buffer,
                                       self.record_start).flag)
       \/ ReadsInsideBuffer(self)
    THEN {BamIter_record(self)}
    ELSE IF NameLengthWraps(self)
    THEN {Crashed(self),
          [self EXCEPT
               !.out = Append(@, BamOutcome("error", NewSequenceRecord,
                                            "MemoryError", NoRefill))]}
    ELSE {Crashed(self)}
         \cup {[BamIter_record(
                    [self EXCEPT
                         !.read_in_buffer =
                             @ \o [k \in 1 .. RecordReadEnd(self)
                                                 - self.buffer_end |-> stray]])
                    EXCEPT !.read_in_buffer = self.read_in_buffer] :
                   stray \in StrayBytes}

---------------------------------------------------------------------------
(* BAM files for the BamIter objects to read *)

\* n as size bytes, least significant first
to_bytes(n, size) == [i \in 1 .. size |-> (n \div (256 ^ (i - 1))) % 256]

Zeros(size) == [i \in 1 .. size |-> 0]

\* magic, l_text, text, n_ref and the references, each with a name of l_name
\* bytes and its l_ref
BamFileHeader(magic, text, l_names) ==
    LET reference(l_name) ==
            to_bytes(l_name, 4) \o [i \in 1 .. l_name |-> LetterC] \o Zeros(4)
        RECURSIVE references(_)
        references(rest) ==
            IF rest = <<>> THEN <<>>
            ELSE reference(Head(rest)) \o references(Tail(rest))
    IN  magic \o to_bytes(Len(text), 4) \o text
        \o to_bytes(Len(l_names), 4) \o references(l_names)

\* one alignment block: block_size and the BamRecordHeader fields, then the
\* name with its NUL, the cigar operations, the packed bases, the qualities
\* and the tags
BamBlock(name, n_cigar_op, flag, encoded_sequence, l_seq, qualities, tags) ==
    LET rest == [i \in 1 .. 4 |-> AllBits]      \* reference_id -1
                \o Zeros(4)                      \* pos
                \o to_bytes(Len(name) + 1, 1)    \* l_read_name
                \o <<AllBits>>                   \* mapq
                \o Zeros(2)                      \* bin
                \o to_bytes(n_cigar_op, 2)
                \o to_bytes(flag, 2)
                \o to_bytes(l_seq, 4)
                \o [i \in 1 .. 4 |-> AllBits]    \* next_ref_id -1
                \o Zeros(4)                      \* next_pos
                \o Zeros(4)                      \* tlen
                \o name \o <<NUL>>
                \o [i \in 1 .. n_cigar_op * 4 |-> AllBits]
                \o encoded_sequence \o qualities \o tags
    IN  to_bytes(Len(rest), 4) \o rest

LongSeqLength == 33    \* bases of the long read: more than one SSSE3 vector

\* three bases A, C, G
ShortRead ==
    BamBlock(<<LetterA>>, 0, UnmappedRead, <<18, 64>>, 3, <<0, 1, 60>>, <<>>)

\* two bases T, N behind one cigar operation, and tags
TaggedRead ==
    BamBlock(<<LetterA, LetterB>>, 1, UnmappedRead, <<143>>, 2, <<40, 93>>,
             <<LetterA, LetterB, LetterC>>)

\* no bases
EmptyRead == BamBlock(<<LetterB>>, 0, UnmappedRead, <<>>, 0, <<>>, <<>>)

\* a mapped read, and one whose flag has 4 in its low byte only
MappedRead == BamBlock(<<LetterA>>, 0, 0, <<18>>, 2, <<1, 2>>, <<>>)
PairedRead == BamBlock(<<LetterA>>, 0, 256 + UnmappedRead, <<18>>, 2, <<1, 2>>, <<>>)

\* a read without qualities: 0xff for each base
UnqualifiedRead ==
    BamBlock(<<LetterC>>, 0, UnmappedRead, <<18>>, 2, <<AllBits, AllBits>>, <<>>)

\* qualities up to 94 and above
HighQualityRead ==
    BamBlock(<<LetterC>>, 0, UnmappedRead, <<18, 64>>, 3, <<94, 95, 222>>, <<>>)

LongRead ==
    BamBlock(<<LetterA>>, 0, UnmappedRead,
             [i \in 1 .. (LongSeqLength + 1) \div 2 |-> (i * 37) % 256],
             LongSeqLength, [i \in 1 .. LongSeqLength |-> i], <<>>)

NoReferences == BamFileHeader(BamMagic, <<>>, <<>>)
OneReference == BamFileHeader(BamMagic, <<AT, LetterA>>, <<2>>)

\* a file of two reads behind a header with a text and a reference
TwoReads == OneReference \o ShortRead \o TaggedRead

RECURSIVE Concatenated(_)
Concatenated(blocks) ==
    IF blocks = <<>> THEN <<>> ELSE Head(blocks) \o Concatenated(Tail(blocks))

WholeBamFiles ==
    {TwoReads}
    \cup {NoReferences \o Concatenated(blocks) :
             blocks \in {<<>>,
                         <<TaggedRead, ShortRead, EmptyRead>>,
                         <<ShortRead, MappedRead, ShortRead>>,
                         <<PairedRead>>,
                         <<UnqualifiedRead, ShortRead>>,
                         <<HighQualityRead>>,
                         <<LongRead, ShortRead>>}}
    \cup {BamFileHeader(magic, <<>>, <<>>) \o ShortRead :
             magic \in {<<LetterB, LetterA, LetterM, NUL>>,
                        <<LetterA, LetterA, LetterM, SOH>>}}

\* files cut off anywhere
BamFiles == WholeBamFiles \cup Prefixes(TwoReads)

LargeReadInSize == 64

ReadInSizes == {3, 4, LargeReadInSize}

MaxBamCalls == 4       \* calls of __next__ made on one BamIter
MaxHeaderReads == 5    \* calls of read made by __cinit__

\* the bytes the file can give to the read of _read_into_buffer: all that is
\* asked for and there, or one byte; nothing at the end of the file only
RefillReads(self) ==
    LET whole == FileRead(self.file, self.pos, RefillSize(self), FALSE)
    IN  IF whole = <<>> THEN {whole} ELSE {whole, <<whole[1]>>}

\* the objects other than the BamIter objects
others == <<parser, seq_record, last, decode_bam_sequence>>

\* BamIter(fileobj, read_in_size)
BamIterCinit(i) ==
    /\ bams[i].state = "new"
    /\ \E short_at \in 0 .. MaxHeaderReads :
           bams' = [bams EXCEPT ![i] = BamIter__cinit__(@, short_at)]
    /\ UNCHANGED others

\* may __next__ be called on the object, or is it running
BamIterUsable(self) == self.state = "ready" /\ Len(self.out) < MaxBamCalls

\* BamIterRefill with one read_in_buffer for all the objects
BamIterRefillOneBuffer(i) ==
    /\ BamIterUsable(bams[i])
    /\ NeedsRefill(bams[i])
    /\ \E new_bytes \in RefillReads(bams[i]) :
           LET after == BamIter_read_into_buffer(bams[i], new_bytes)
           IN  bams' = [j \in DOMAIN bams |->
                           IF j = i THEN after
                           ELSE [bams[j] EXCEPT
                                     !.read_in_buffer = after.read_in_buffer]]
    /\ UNCHANGED others

\* __next__: self._read_into_buffer(), then continue or the exception
BamIterRefill(i) ==
    /\ BamIterUsable(bams[i])
    /\ NeedsRefill(bams[i])
    /\ \E new_bytes \in RefillReads(bams[i]) :
           bams' = [bams EXCEPT ![i] = BamIter_read_into_buffer(@, new_bytes)]
    /\ UNCHANGED others

\* BamIterRecord that returns the one object again and again: the records
\* returned before become the record returned now
BamIterRecordOneObject(i) ==
    /\ BamIterUsable(bams[i])
    /\ ~NeedsRefill(bams[i])
    /\ LET after == BamIter_record(bams[i])
           now == after.out[Len(after.out)]
       IN  bams' = [bams EXCEPT
                       ![i] = [after EXCEPT
                                  !.out = [k \in DOMAIN after.out |->
                                              IF now.kind = "record"
                                                 /\ after.out[k].kind = "record"
                                              THEN now ELSE after.out[k]]]]
    /\ UNCHANGED others

\* __next__: the record at record_start is whole; return it or raise
BamIterRecord(i) ==
    /\ BamIterUsable(bams[i])
    /\ ~NeedsRefill(bams[i])
    /\ \E after \in BamIter_record_outcomes(bams[i]) :
           bams' = [bams EXCEPT ![i] = after]
    /\ UNCHANGED others

NextBam ==
    \/ \E i \in DOMAIN bams : BamIterCinit(i)
    \/ \E i \in DOMAIN bams : BamIterRefill(i)
    \/ \E i \in DOMAIN bams : BamIterRecord(i)

\* One BamIter about to be made on a file, and no FastqIter at work
InitBam ==
    /\ source = NoRecord
    /\ seq_record = NewSequenceRecord
    /\ last = NoCall
    /\ NewFastqIter(<<>>, 1)
    /\ decode_bam_sequence \in DecodeBamSequenceFunctions
    /\ \E file \in BamFiles, read_in_size \in ReadInSizes :
           bams = <<NewBamIter(file, read_in_size)>>

SpecBam == InitBam /\ [][NextBam]_vars

---------------------------------------------------------------------------
(* The BAM format, read off a whole file at once: the reference BamIter is  *)
(* compared with.                                                           *)

\* the offset of the first alignment block: behind magic, l_text, the text,
\* n_ref and the references
RECURSIVE ReferencesEnd(_, _, _)
ReferencesEnd(file, at, n_ref) ==
    IF n_ref = 0 THEN at
    ELSE ReferencesEnd(file, at + 4 + UintAt(file, at, 4) + 4, n_ref - 1)

FirstBlockOffset(file) ==
    LET l_text == UintAt(file, 4, 4)
    IN  ReferencesEnd(file, 8 + l_text + 4, UintAt(file, 8 + l_text, 4))

\* the blocks that are whole in the file, from offset at on: each is its
\* block_size and the block_size bytes behind it
RECURSIVE BlocksFrom(_, _)
BlocksFrom(file, at) ==
    IF at + 4 > Len(file) \/ at + 4 + UintAt(file, at, 4) > Len(file) THEN <<>>
    ELSE <<SubSeq(file, at + 1, at + 4 + UintAt(file, at, 4))>>
         \o BlocksFrom(file, at + 4 + UintAt(file, at, 4))

Blocks(file) == BlocksFrom(file, FirstBlockOffset(file))

\* the bytes of the first k of the blocks
RECURSIVE BytesOf(_, _)
BytesOf(blocks, k) == IF k = 0 THEN 0 ELSE Len(blocks[k]) + BytesOf(blocks, k - 1)

BlockFlag(block) == block[19] + 256 * block[20]

BlockSeqLength(block) == UintAt(block, 20, 4)

\* the offset in the block of its qualities
BlockQualities(block) ==
    36 + block[13] + 4 * (block[17] + 256 * block[18])
       + (BlockSeqLength(block) + 1) \div 2

\* the record made of a block: the name without its NUL, base i from the
\* upper (i odd) or lower (i even) half of the packed bytes behind the cigar
\* operations, and the qualities that follow, each plus 33 in a byte
ExpectedRecord(block) ==
    LET l_read_name == block[13]
        n_cigar_op == block[17] + 256 * block[18]
        l_seq == BlockSeqLength(block)
        packed == 36 + l_read_name + 4 * n_cigar_op
        half(i) == IF i % 2 = 1 THEN block[packed + (i + 1) \div 2] \div 16
                   ELSE block[packed + i \div 2] % 16
    IN  [NewSequenceRecord EXCEPT
             !._name = Str(SubSeq(block, 37, 36 + l_read_name - 1)),
             !._sequence = Str([i \in 1 .. l_seq |-> nuc_lookup[half(i) + 1]]),
             !._qualities =
                 Str([i \in 1 .. l_seq |->
                         (block[BlockQualities(block) + i] + 33) % 256])]

IsRecord(outcome) == outcome.kind = "record"

\* the records the calls of __next__ have returned, in order
Returns(self) == SelectSeq(self.out, IsRecord)

\* the offset in the file of the byte record_start points to
FileCursor(self) == self.pos - (self.buffer_end - self.record_start)

---------------------------------------------------------------------------
(* Claims about BamIter *)

\* C25: the k-th record BamIter returns is made of the k-th block of the
\* file: its name is the l_read_name - 1 bytes behind the 36 bytes of the
\* fixed header, its sequence the l_seq bases of the packed bytes behind the
\* cigar operations, its qualities the l_seq bytes that follow, each plus 33;
\* and with each record the cursor moves on by 4 + block_size.
C25_BamRecords ==
    \A i \in DOMAIN bams :
        bams[i].state = "ready" =>
            LET blocks == Blocks(bams[i].file)
                returned == Returns(bams[i])
            IN  /\ Len(returned) <= Len(blocks)
                /\ Len(returned) = bams[i].number_of_records
                /\ \A k \in 1 .. Len(returned) :
                       returned[k].record = ExpectedRecord(blocks[k])
                /\ FileCursor(bams[i]) =
                       FirstBlockOffset(bams[i].file)
                           + BytesOf(blocks, Len(returned))

\* the long read and the read behind it have been returned, decoded with
\* SSSE3
C25_Witness ==
    /\ bams[1].state = "ready"
    /\ decode_bam_sequence = "decode_bam_sequence_ssse3"
    /\ bams[1].number_of_records = 2
    /\ Len(bams[1].out[1].record._sequence.value) = LongSeqLength

\* the block at the cursor is whole in the buffer
WholeBlockBuffered(self) ==
    LET residual == self.buffer_end - self.record_start
        at == FileCursor(self)
    IN  /\ self.state = "ready"
        /\ residual > 4
        /\ residual >= 4 + UintAt(self.file, at, 4)

\* C26: when the block at the cursor is whole in the buffer and its flag is
\* not 4, __next__ fails with Unsupported, returns no record and leaves
\* number_of_records and the cursor as they were; so every record returned is
\* made of a block with flag 4.
C26_FlagUnsupported ==
    /\ [](\A i \in DOMAIN bams :
              bams[i].state = "ready" =>
                  \A k \in 1 .. Len(Returns(bams[i])) :
                      BlockFlag(Blocks(bams[i].file)[k]) = 4)
    /\ [][\A i \in DOMAIN bams :
              /\ WholeBlockBuffered(bams[i])
              /\ UintAt(bams[i].file, FileCursor(bams[i]) + 18, 2) # 4
              /\ bams'[i] # bams[i]
              => /\ bams'[i].out =
                        Append(bams[i].out,
                               BamOutcome("error", NewSequenceRecord,
                                          "Unsupported", NoRefill))
                 /\ bams'[i] = [bams[i] EXCEPT !.out = bams'[i].out]]_vars

\* Unsupported was raised for the block behind a record, and once again
C26_Witness ==
    /\ bams[1].state = "ready"
    /\ bams[1].number_of_records = 1
    /\ Len(bams[1].out) = 3
    /\ bams[1].out[2].err = "Unsupported"
    /\ bams[1].out[3].err = "Unsupported"

\* C27: a record of a block with l_seq > 0 whose first quality byte is 0xff
\* has no qualities; the record of any other block has qualities of length
\* l_seq.
C27_MissingQualities ==
    \A i \in DOMAIN bams :
        bams[i].state = "ready" =>
            \A k \in 1 .. Len(Returns(bams[i])) :
                LET block == Blocks(bams[i].file)[k]
                    qualities == Returns(bams[i])[k].record._qualities
                IN  IF /\ BlockSeqLength(block) > 0
                       /\ block[BlockQualities(block) + 1] = AllBits
                    THEN qualities = None
                    ELSE /\ qualities # None
                         /\ Len(qualities.value) = BlockSeqLength(block)

\* C28: a call of _read_into_buffer in which read gives no bytes ends the
\* iteration (StopIteration) iff no bytes are left over, and fails with
\* Truncated if one or more are; neither returns a record.
C28_RefillAtEof ==
    /\ [](\A i \in DOMAIN bams :
              \A k \in 1 .. Len(bams[i].out) :
                  LET outcome == bams[i].out[k]
                  IN  /\ outcome.refill # NoRefill => outcome.refill.new_bytes_size = 0
                      /\ outcome.kind = "stop" =>
                             outcome.refill.leftover_size = 0
                      /\ outcome.err = "Truncated" =>
                             outcome.refill.leftover_size >= 1)
    /\ [][\A i \in DOMAIN bams :
              LET residual == bams[i].buffer_end - bams[i].record_start
              IN  /\ bams[i].state = "ready"
                  /\ bams[i].pos = Len(bams[i].file)
                  /\ ~WholeBlockBuffered(bams[i])
                  /\ bams'[i] # bams[i]
                  => /\ Len(bams'[i].out) = Len(bams[i].out) + 1
                     /\ Last(bams'[i].out).kind =
                            IF residual = 0 THEN "stop" ELSE "error"
                     /\ Last(bams'[i].out).err =
                            IF residual = 0 THEN "" ELSE "Truncated"
                     /\ Last(bams'[i].out).refill =
                            [leftover_size |-> residual, new_bytes_size |-> 0]
                     /\ bams'[i].number_of_records = bams[i].number_of_records]_vars

\* a file cut off within its second block: a record, then Truncated with the
\* bytes of the block that are there left over
C28_Witness ==
    /\ bams[1].state = "ready"
    /\ Len(bams[1].out) = 2
    /\ bams[1].out[1].kind = "record"
    /\ bams[1].out[2].err = "Truncated"
    /\ bams[1].out[2].refill.leftover_size > 4

\* C29: __cinit__ fails with Truncated iff one of its reads (8 bytes of magic
\* and l_text, l_text bytes of text, 4 bytes of n_ref, 4 bytes of l_name and
\* l_name + 4 bytes for each reference) gives fewer bytes than asked for, with
\* BadMagic iff the 8 bytes were read and the first four are not "BAM\1";
\* otherwise the l_text bytes are kept as header and the reader is at the
\* first block.
C29_Construction ==
    /\ [][\A i \in DOMAIN bams :
              bams[i].state = "new" /\ bams'[i].state = "ready" =>
                  /\ bams'[i].pos = FirstBlockOffset(bams[i].file)
                  /\ bams'[i].record_start = bams'[i].buffer_end
                  /\ bams'[i].number_of_records = 0]_vars
    /\ [](\A i \in DOMAIN bams :
        bams[i].state # "new" =>
            LET self == bams[i]
                short == \E k \in 1 .. Len(self.reads) :
                             self.reads[k][2] < self.reads[k][1]
                asked == Len(self.reads) > 0
                magic == asked /\ self.reads[1] = <<8, 8>>
                bad == magic /\ SubSeq(self.file, 1, 4) # BamMagic
            IN  /\ asked <=> self.read_in_size >= 4
                /\ self.err = "Truncated" <=> short
                /\ self.err = "BadMagic" <=> bad
                /\ asked /\ ~short /\ ~bad <=> self.state = "ready"
                /\ self.state = "ready" =>
                       /\ self.header =
                              SubSeq(self.file, 9, 8 + UintAt(self.file, 4, 4))
                       /\ Len(self.reads) =
                              3 + 2 * UintAt(self.file, 8 + Len(self.header), 4)
                /\ \A k \in 1 .. Len(self.reads) :
                       k < Len(self.reads) => self.reads[k][2] = self.reads[k][1])

\* the read of the name of the reference fell short
C29_Witness ==
    /\ bams[1].state = "failed"
    /\ bams[1].err = "Truncated"
    /\ Len(bams[1].reads) = 5
    /\ bams[1].reads[5][2] > 0

---------------------------------------------------------------------------
(* A FastqIter and two BamIter objects, each consumed by a thread of its    *)
(* own.  A thread runs __next__ of its object; the threads take turns at    *)
(* the calls of read, where the interpreter may switch.                     *)


\* two files of one block
ThreadBamFiles == <<NoReferences \o ShortRead, NoReferences \o TaggedRead>>

ThreadReadInSizes == <<LargeReadInSize, sizeof_uint32_t>>

\* the first record of TwoRecords
ThreadFastqFile == SubSeq(TwoRecords, 1, 7)

InitThreads ==
    /\ source = NoRecord
    /\ seq_record = NewSequenceRecord
    /\ last = NoCall
    /\ decode_bam_sequence \in DecodeBamSequenceFunctions
    /\ NewFastqIter(ThreadFastqFile, MaxBufferSize)
    /\ bams = [i \in 1 .. 2 |->
                  NewBamIter(ThreadBamFiles[i], ThreadReadInSizes[i])]

NextThreads == Next \/ NextBam

SpecThreads == InitThreads /\ [][NextThreads]_vars

\* what a step of its thread makes of the BamIter self when no other parser
\* exists
AloneBamSteps(self) ==
    IF self.state = "new"
    THEN {BamIter__cinit__(self, short_at) : short_at \in 0 .. MaxHeaderReads}
    ELSE IF ~BamIterUsable(self) THEN {}
    ELSE IF NeedsRefill(self)
    THEN {BamIter_read_into_buffer(self, new_bytes) :
              new_bytes \in RefillReads(self)}
    ELSE BamIter_record_outcomes(self)

---------------------------------------------------------------------------
(* Claims about the buffer and the counter of FastqIter *)

\* the bytes the next call of _read_into_buffer asks the file for, and the
\* bytes of the buffer that are free once it has doubled the buffer or moved
\* the remainder to its start
ReadRequest ==
    IF BufferTooSmall(record_start, bytes_in_buffer, buffer_size)
    THEN DoubledSize(buffer_size) - bytes_in_buffer
    ELSE buffer_size - (bytes_in_buffer - record_start)

FreeAfterMove ==
    IF record_start = 0 /\ bytes_in_buffer = buffer_size
    THEN 2 * buffer_size - bytes_in_buffer
    ELSE buffer_size - Len(SubSeq(buffer, record_start + 1, Len(buffer)))

\* C31: in every state of FastqIter 0 <= record_start <= bytes_in_buffer <=
\* buffer_size, also once the LF is appended at the end of the file and after
\* PrematureEof; the LF is written inside the buffer; and a call of read asks
\* for at least one byte and for no more than the buffer has free.
C31_BufferBounds ==
    /\ 0 <= record_start
    /\ record_start <= bytes_in_buffer
    /\ bytes_in_buffer <= buffer_size
    /\ \A k \in 1 .. Len(synth) : synth[k].at < synth[k].capacity
    /\ 1 <= ReadRequest
    /\ ReadRequest <= FreeAfterMove

\* the LF was appended and filled the buffer; then PrematureEof was raised
C31_Witness ==
    /\ synth # <<>>
    /\ synth[1].at = synth[1].capacity - 1
    /\ out # <<>>
    /\ Last(out).err = "PrematureEof"

---------------------------------------------------------------------------
(* One parser at work: a FastqIter on one of its files, or a BamIter on one *)
(* of its files                                                             *)

InitParsers == Init \/ InitBam

NextParsers == (bams = <<>> /\ Next) \/ NextBam

SpecParsers == InitParsers /\ [][NextParsers]_vars

\* the values returned and the errors raised so far are there as they were
Kept(before, after) ==
    /\ Len(after) >= Len(before)
    /\ \A k \in 1 .. Len(before) : after[k] = before[k]

C34_NumberOfRecords ==
    /\ number_of_records = 0
    /\ \A i \in DOMAIN bams : bams[i].number_of_records = 0
    /\ [](/\ number_of_records = Len(SelectSeq(out, IsRecord))
          /\ \A i \in DOMAIN bams :
                 bams[i].number_of_records = Len(Returns(bams[i])))
    /\ [][/\ number_of_records' - number_of_records =
                 IF Len(out') > Len(out) /\ Last(out').kind = "record"
                 THEN 1 ELSE 0
          /\ \A i \in DOMAIN bams :
                 bams'[i].number_of_records - bams[i].number_of_records =
                     IF /\ Len(bams'[i].out) > Len(bams[i].out)
                        /\ Last(bams'[i].out).kind = "record"
                     THEN 1 ELSE 0]_vars

\* the bool, a record and then an error: one record counted
C34_Witness ==
    /\ bams = <<>>
    /\ Len(out) = 3
    /\ out[1].kind = "bool"
    /\ out[2].kind = "record"
    /\ out[3].kind = "error"
    /\ number_of_records = 1
    /\ pos > out[2].read

---------------------------------------------------------------------------
(* FastqIter called again and again: a call that can take a step takes it   *)

\* the two files, whole and cut off at every length
LiveInputs == Prefixes(TwoRecords) \cup Prefixes(CrLfRecord)

InitLive ==
    /\ source = NoRecord
    /\ seq_record = NewSequenceRecord
    /\ last = NoCall
    /\ NoBamIter
    /\ \E file \in LiveInputs, size \in BufferSizes : NewFastqIter(file, size)

SpecLive == InitLive /\ [][Next]_vars /\ WF_vars(Next)

\* __next__ has raised StopIteration or an error
IterationOver ==
    \E k \in 1 .. Len(out) : out[k].kind \in {"stop", "error"}

\* C33: on every input, with a reader that gives at least one byte per call
\* until the end of the file and none after it, the calls of __next__ come to
\* StopIteration or to an error; every call of __next__ ends; and every call
\* of _read_into_buffer takes at least one byte from the file or finds the
\* file at its end.
C33_Termination ==
    /\ <>IterationOver
    /\ (pc = "running") ~> (pc = "idle")
    /\ [][pos' >= pos /\ (reader_eof' # reader_eof => pos' = Len(input))
          /\ (Len(out') = Len(out) /\ pc' = "running"
                  => pos' > pos \/ (pos' = Len(input) /\ reader_eof'))]_vars

\* both records were returned, from a buffer that had to grow, and then
\* StopIteration was raised
C33_Witness ==
    /\ number_of_records = 2
    /\ buffer_size = 16
    /\ Last(out).kind = "stop"
    /\ reads_after_eof = 0

---------------------------------------------------------------------------
(* Calls of the two sequence decoders of bam.h on packed bases *)

MaxSeqLength == 65    \* more than two passes of the loop of the SSSE3 decoder

\* packed bases: byte i is first + i * step in a byte
PackedBases(length, first, step) ==
    [i \in 1 .. (length + 1) \div 2 |-> (first + i * step) % 256]

\* every byte as the only one, and runs of bytes of every length
PackedInputs ==
    {<<PackedBases(length, first, 0), length>> :
        length \in 1 .. 2, first \in 0 .. AllBits}
    \cup {<<PackedBases(length, first, step), length>> :
             length \in 0 .. MaxSeqLength, first \in {0, DEL},
             step \in {1, sizeof_longword + 1}}

\* the call made on the packed bases and the length that are the pending
\* arguments
DecodeCalled(op, decoded) ==
    /\ last.op = ""
    /\ last' = Call(op, last.args, NoKey, FALSE,
                    Returned(NewSequenceRecord, Str(decoded),
                             NewSequenceRecord).result)
    /\ UNCHANGED <<parser, seq_record, bams, decode_bam_sequence>>

CallDecodeDefault ==
    DecodeCalled("decode_bam_sequence_default",
                 decode_bam_sequence_default(last.args[1], last.args[2]))

CallDecodeSsse3 ==
    DecodeCalled("decode_bam_sequence_ssse3",
                 decode_bam_sequence_ssse3(last.args[1], last.args[2]))

NextDecode == CallDecodeDefault \/ CallDecodeSsse3

InitDecode ==
    /\ source = NoRecord
    /\ seq_record = NewSequenceRecord
    /\ NoBamIter
    /\ \E packed \in PackedInputs : last = Pending(packed)
    /\ NewFastqIter(<<>>, 1)

SpecDecode == InitDecode /\ [][NextDecode]_vars

\* "=ACMGRSVTWYHKDBN"
Alphabet == <<61, 65, 67, 77, 71, 82, 83, 86, 84, 87, 89, 72, 75, 68, 66, 78>>

\* base number i, counted from 0, of the packed bases: from the high half of
\* byte i \div 2 when i is even, from its low half when i is odd
BaseAt(packed, i) ==
    IF i % 2 = 0 THEN Alphabet[(packed[(i \div 2) + 1] \div 16) + 1]
    ELSE Alphabet[(packed[(i \div 2) + 1] % 16) + 1]

\* C35: for all packed bases and every length l_seq, each of the two decoders
\* writes l_seq bytes, byte 2i the letter of the alphabet for the high half
\* of input byte i and byte 2i + 1 the letter for its low half (of the last
\* byte of an odd l_seq the high half only); so the SSSE3 decoder and the one
\* with the table give the same.
C35_DecodeBamSequence ==
    last.op \in {"decode_bam_sequence_default", "decode_bam_sequence_ssse3"} =>
        LET packed == last.args[1]
            l_seq == last.args[2]
            decoded == last.result.value.value
        IN  /\ Len(decoded) = l_seq
            /\ \A i \in 0 .. (l_seq - 1) : decoded[i + 1] = BaseAt(packed, i)
            /\ decoded = decode_bam_sequence_default(packed, l_seq)
            /\ decoded = decode_bam_sequence_ssse3(packed, l_seq)

\* the SSSE3 decoder has decoded 65 bases: two passes of its loop and one
\* base left over
C35_Witness ==
    /\ last.op = "decode_bam_sequence_ssse3"
    /\ last.args[2] = 65
    /\ Len(last.result.value.value) = 65
    /\ last.args[1][1] # last.args[1][33]

---------------------------------------------------------------------------
(* Claims about the bytes BamIter decodes and reads *)

\* C36: the qualities of every record BamIter returns are the quality bytes
\* of its block, each plus 33 in 8 bits, and each of them is a 7-bit ASCII
\* byte (below 0x80).
C36_QualitiesAscii ==
    \A i \in DOMAIN bams :
        bams[i].state = "ready" =>
            LET blocks == Blocks(bams[i].file)
                returned == Returns(bams[i])
            IN  \A k \in 1 .. Len(returned) :
                    LET qualities == returned[k].record._qualities.value
                        at == BlockQualities(blocks[k])
                    IN  /\ Len(qualities) = BlockSeqLength(blocks[k])
                        /\ \A j \in 1 .. Len(qualities) :
                               /\ qualities[j] = (blocks[k][at + j] + 33) % 256
                               /\ qualities[j] < 128

\* a block that is too short for its l_seq of 4: one byte of packed bases and
\* two qualities where two and four are announced
OverlongRead ==
    [BamBlock(<<LetterA>>, 0, UnmappedRead, <<18>>, 2, <<1, 2>>, <<>>)
         EXCEPT ![21] = 4]

\* a block with an l_read_name of 0
NamelessRead ==
    [BamBlock(<<>>, 0, UnmappedRead, <<18>>, 2, <<1, 2>>, <<>>) EXCEPT ![13] = 0]

\* files with a block whose header does not fit its block_size, and one
\* without
LayoutBamFiles ==
    {NoReferences \o Concatenated(blocks) :
        blocks \in {<<ShortRead, TaggedRead>>,
                    <<OverlongRead, ShortRead>>,
                    <<ShortRead, OverlongRead>>,
                    <<NamelessRead, ShortRead>>}}

\* One BamIter about to be made on one of these files
InitBamLayouts ==
    /\ source = NoRecord
    /\ seq_record = NewSequenceRecord
    /\ last = NoCall
    /\ NewFastqIter(<<>>, 1)
    /\ decode_bam_sequence \in DecodeBamSequenceFunctions
    /\ \E file \in LayoutBamFiles, read_in_size \in ReadInSizes :
           bams = <<NewBamIter(file, read_in_size)>>

SpecBamLayouts == InitBamLayouts /\ [][NextBam]_vars

\* __next__ is about to decode the block at record_start: the block is whole
\* in the buffer and its flag is 4
Accepts(self) ==
    /\ BamIterUsable(self)
    /\ ~NeedsRefill(self)
    /\ ~FlagUnsupported(BamRecordHeader(self.read_in_buffer,
                                        self.record_start).flag)

\* C37: for every header BamIter accepts, 36 + l_read_name + 4 * n_cigar_op
\* + ceil(l_seq / 2) + l_seq <= 4 + block_size, so that decoding reads bytes
\* of the block only and the length of the tags is not negative; and
\* l_read_name - 1 is not below 0.
C37_ReadsInsideBlock ==
    \A i \in DOMAIN bams :
        Accepts(bams[i]) =>
            LET header == BamRecordHeader(bams[i].read_in_buffer,
                                          bams[i].record_start)
                record_end == bams[i].record_start + 4 + header.block_size
            IN  /\ 36 + header.l_read_name + 4 * header.n_cigar_op
                       + (header.l_seq + 1) \div 2 + header.l_seq
                       <= 4 + header.block_size
                /\ RecordReadEnd(bams[i]) <= record_end
                /\ record_end - RecordReadEnd(bams[i]) >= 0
                /\ header.l_read_name - 1 >= 0

---------------------------------------------------------------------------
(* The tags of a BAM record and their slicing: get_tag_length,            *)
(* get_tag_int_value, store_tag_int_value, trim_move_table_tag, slice_tags *)
(* and __getitem__ of the version of _core.pyx that keeps the tags.  A tag *)
(* is a pointer into the bytes of a bytes object: an offset into data, the *)
(* bytes and the NUL that ends them.                                       *)

\* the code of a character of a bytes literal
Ord(char) ==
    CASE char = "A" -> 65  [] char = "B" -> 66  [] char = "C" -> 67
      [] char = "F" -> 70  [] char = "G" -> 71  [] char = "H" -> 72
      [] char = "I" -> 73  [] char = "L" -> 76  [] char = "M" -> 77
      [] char = "N" -> 78  [] char = "R" -> 82  [] char = "S" -> 83
      [] char = "Z" -> 90  [] char = "c" -> 99  [] char = "d" -> 100
      [] char = "f" -> 102 [] char = "h" -> 104 [] char = "i" -> 105
      [] char = "m" -> 109
      [] char = "n" -> 110 [] char = "q" -> 113 [] char = "s" -> 115
      [] char = "t" -> 116 [] char = "u" -> 117 [] char = "v" -> 118

Ords(chars) == [k \in DOMAIN chars |-> Ord(chars[k])]

INT8_MIN == -128
INT8_MAX == 127
UINT8_MAX == 255
INT16_MIN == -32768
INT16_MAX == 32767
UINT16_MAX == 65535
INT32_MAX == 2147483647
PY_SSIZE_T_MAX == 2147483647    \* stands for 2^63 - 1: no tag holds it

\* a little-endian signed integer of size bytes at offset at
SignedAt(data, at, size) ==
    LET top == data[at + size]
    IN  (IF size = 1 THEN 0 ELSE UintAt(data, at, size - 1))
            + (256 ^ (size - 1)) * (IF top >= 128 THEN top - 256 ELSE top)

get_tag_int_value(data, tag_ptr) ==
    LET tag_type == data[tag_ptr + 3]
        value_ptr == tag_ptr + 3
    IN  IF tag_type = Ord("c") THEN SignedAt(data, value_ptr, 1)
        ELSE IF tag_type = Ord("C") THEN UintAt(data, value_ptr, 1)
        ELSE IF tag_type = Ord("s") THEN SignedAt(data, value_ptr, 2)
        ELSE IF tag_type = Ord("S") THEN UintAt(data, value_ptr, 2)
        ELSE IF tag_type = Ord("i") THEN SignedAt(data, value_ptr, 4)
        ELSE IF tag_type = Ord("I") THEN UintAt(data, value_ptr, 4)
        ELSE PY_SSIZE_T_MAX

\* value in size bytes, least significant first, a negative one as its
\* two's complement
SignedBytes(value, size) ==
    IF value >= 0 THEN to_bytes(value, size)
    ELSE [k \in 1 .. size |->
             IF k < size THEN ((value + 256 ^ size) \div (256 ^ (k - 1))) % 256
             ELSE 255]

\* store_tag_int_value(tag, value, dest): the bytes written at dest, their
\* number being what is returned.  The values of the model are in the range
\* of an int32_t, so the tests against INT32_MIN and UINT32_MAX pass.
store_tag_int_value(tag, value) ==
    IF INT8_MIN <= value /\ value <= INT8_MAX
    THEN tag \o <<Ord("c")>> \o SignedBytes(value, 1)
    ELSE IF INT8_MAX < value /\ value <= UINT8_MAX
    THEN tag \o <<Ord("C")>> \o to_bytes(value, 1)
    ELSE IF INT16_MIN <= value /\ value <= INT16_MAX
    THEN tag \o <<Ord("s")>> \o SignedBytes(value, 2)
    ELSE IF INT16_MAX < value /\ value <= UINT16_MAX
    THEN tag \o <<Ord("S")>> \o to_bytes(value, 2)
    ELSE tag \o <<Ord("i")>> \o to_bytes(value, 4)

get_array_item_size(array_type) ==
    IF array_type = Ord("c") \/ array_type = Ord("C") THEN 1
    ELSE IF array_type = Ord("s") \/ array_type = Ord("S") THEN 2
    ELSE IF array_type = Ord("i") \/ array_type = Ord("I")
            \/ array_type = Ord("f") THEN 4
    ELSE -1

\* get_tag_length(tag, max_length).  b"Z" by itself is a true condition, so
\* the branch of memchr is taken for every type the branches before it do
\* not take, and the branch of the arrays never; memchr stops at the NUL
\* that ends the bytes at the latest; tag_length is not assigned in that
\* branch and keeps its -1.
get_tag_length(data, tag, max_length) ==
    LET tag_type == data[tag + 3]
        initial == -1
        tag_length ==
            IF tag_type = Ord("c") \/ tag_type = Ord("C")
               \/ tag_type = Ord("A") THEN [returned |-> FALSE, length |-> 4]
            ELSE IF tag_type = Ord("s") \/ tag_type = Ord("S")
            THEN [returned |-> FALSE, length |-> 5]
            ELSE IF tag_type = Ord("i") \/ tag_type = Ord("I")
                    \/ tag_type = Ord("F")
            THEN [returned |-> FALSE, length |-> 7]
            ELSE IF tag_type = Ord("H") \/ Ord("Z") # 0
            THEN (IF memchr(data, tag + 3, NUL,
                            MinOf({max_length, Len(data) - (tag + 3)})) = NULL
                  THEN [returned |-> TRUE, length |-> -1]
                  ELSE [returned |-> FALSE, length |-> initial])
            ELSE IF tag_type = Ord("B")
            THEN (IF get_array_item_size(data[tag + 4]) = -1
                  THEN [returned |-> TRUE, length |-> -1]
                  ELSE [returned |-> FALSE,
                        length |-> 8 + get_array_item_size(data[tag + 4])
                                           * UintAt(data, tag + 4, 4)])
            ELSE [returned |-> FALSE, length |-> -1]
    IN  IF tag_length.returned THEN tag_length.length
        ELSE IF tag_length.length > max_length THEN -1
        ELSE tag_length.length

\* PySlice_GetIndicesEx for a sequence of length n
PySlice_GetIndicesEx(key, n) ==
    LET step == IF key.step = <<>> THEN 1 ELSE key.step[1]
        lower == IF step < 0 THEN -1 ELSE 0
        upper == IF step < 0 THEN n - 1 ELSE n
        Adjust(i) == IF i < 0
                     THEN (IF i + n < 0 THEN lower ELSE i + n)
                     ELSE (IF i >= n THEN upper ELSE i)
        start == IF key.start = <<>> THEN (IF step < 0 THEN upper ELSE lower)
                 ELSE Adjust(key.start[1])
        stop == IF key.stop = <<>> THEN (IF step < 0 THEN lower ELSE upper)
                ELSE Adjust(key.stop[1])
    IN  [start |-> start, stop |-> stop, step |-> step,
         slice_length |-> SliceIndices(key, n).count]

\* unpack_index_key for a key that is a slice
unpack_index_key(key, original_size) == PySlice_GetIndicesEx(key, original_size)

\* trim_move_table_tag: the first loop, from cursor on, an offset into the
\* move table
RECURSIVE FindBeginning(_, _, _, _, _)
FindBeginning(mv_table, cursor, sequence_pos, trimmed_positions, start) ==
    IF cursor >= Len(mv_table)
    THEN [cursor |-> cursor, sequence_pos |-> sequence_pos,
          trimmed_positions |-> trimmed_positions]
    ELSE LET counted == IF mv_table[cursor + 1] = 1 THEN sequence_pos + 1
                        ELSE sequence_pos
         IN  IF counted > start
             THEN [cursor |-> cursor, sequence_pos |-> counted - 1,
                   trimmed_positions |-> trimmed_positions]
             ELSE FindBeginning(mv_table, cursor + 1, counted,
                                trimmed_positions + 1, start)

\* trim_move_table_tag: the second loop; gives the cursor it ends at
RECURSIVE FindEnd(_, _, _, _)
FindEnd(mv_table, cursor, sequence_pos, stop) ==
    IF cursor < Len(mv_table) /\ sequence_pos < stop
    THEN FindEnd(mv_table, cursor + 1,
                 IF mv_table[cursor + 1] = 1 THEN sequence_pos + 1
                 ELSE sequence_pos,
                 stop)
    ELSE cursor

\* trim_move_table_tag(mv_tag, dest, ts, ns, start, stop) for an mv_tag that
\* is not NULL: what it returns and the bytes it writes at dest
trim_move_table_tag(data, mv_tag, ts, ns, start, stop) ==
    IF SubSeq(data, mv_tag + 1, mv_tag + 4) # Ords(<<"m", "v", "B", "c">>)
    THEN [returned |-> -1, written |-> <<>>]
    ELSE LET raw_length == UintAt(data, mv_tag + 4, 4)
             mv_length == raw_length - 1
             stride == data[mv_tag + 9]
             mv_table == SubSeq(data, mv_tag + 10, mv_tag + 9 + mv_length)
             begin == FindBeginning(mv_table, 0, 0, 0, start)
             new_mv_table_start == begin.cursor
             new_mv_table_end ==
                 FindEnd(mv_table, begin.cursor, begin.sequence_pos, stop)
             new_mv_table_size == new_mv_table_end - new_mv_table_start
             new_ts == IF new_mv_table_size = 0 THEN -1
                       ELSE IF ts >= 0
                       THEN ts + begin.trimmed_positions * stride
                       ELSE ts
             new_ns == IF new_mv_table_size = 0 THEN -1
                       ELSE IF ns >= 0
                       THEN new_mv_table_size * stride
                                + (IF new_ts > 0 THEN new_ts ELSE 0)
                       ELSE ns
             written == Ords(<<"m", "v", "B", "c">>)
                            \o to_bytes(new_mv_table_size + 1, 4)
                            \o <<stride>>
                            \o SubSeq(mv_table, new_mv_table_start + 1,
                                      new_mv_table_end)
                            \o store_tag_int_value(Ords(<<"n", "s">>), new_ns)
                            \o store_tag_int_value(Ords(<<"t", "s">>), new_ts)
         IN  [returned |-> Len(written), written |-> written]

\* slice_tags: one pass of the loop over the tags, for the tag of tag_length
\* bytes at offset tag; left is what the passes before it left: the bytes
\* copied, ns, ts and the mv tag
SliceTagsPass(data, tag, tag_length, left) ==
    LET name == SubSeq(data, tag + 1, tag + 2)
        value == get_tag_int_value(data, tag)
        known == IF value = PY_SSIZE_T_MAX THEN -1 ELSE value
    IN  IF name = Ords(<<"n", "s">>) THEN [left EXCEPT !.ns = known]
        ELSE IF name = Ords(<<"t", "s">>) THEN [left EXCEPT !.ts = known]
        ELSE IF name = Ords(<<"m", "v">>) THEN [left EXCEPT !.mv = tag]
        ELSE IF name \in {Ords(<<"M", "L">>), Ords(<<"M", "M">>),
                          Ords(<<"M", "N">>), Ords(<<"d", "u">>)}
        THEN left
        ELSE [left EXCEPT
                  !.dest = @ \o SubSeq(data, tag + 1, tag + tag_length)]

\* slice_tags: the loop over the tags from tag on, and what it leaves, or
\* the ValueError; tag_length is what get_tag_length gave for the tag
RECURSIVE SliceTagsLoop(_, _, _, _)
SliceTagsBody(data, tags_length, tag, left, tag_length) ==
    IF tag_length = -1 THEN [left EXCEPT !.err = "ValueError"]
    ELSE SliceTagsLoop(data, tags_length, tag + tag_length,
                       SliceTagsPass(data, tag, tag_length, left))

SliceTagsLoop(data, tags_length, tag, left) ==
    IF tag >= tags_length THEN left
    ELSE SliceTagsBody(data, tags_length, tag, left,
                       get_tag_length(data, tag, tags_length - tag))

\* what a call gave: bytes, an exception, or the end of the process
TagsOutcome(kind, err, tags) == [kind |-> kind, err |-> err, tags |-> tags]

\* slice_tags(tags, original_size, slice_obj): the outcomes it can have.
\* With no mv tag met, memcmp reads at NULL; bytes written behind the
\* tags_length bytes of sliced_tags are written to memory that is not its
\* own.
slice_tags(tags, original_size, slice_obj) ==
    LET data == tags \o <<NUL>>
        tags_length == Len(tags)
        at == unpack_index_key(slice_obj, original_size)
        left == SliceTagsLoop(data, tags_length, 0,
                              [err |-> "", dest |-> <<>>, ns |-> -1,
                               ts |-> -1, mv |-> NULL])
        trimmed == trim_move_table_tag(data, left.mv, left.ts, left.ns,
                                       at.start, at.stop)
        destination == IF trimmed.returned >= 0 THEN left.dest \o trimmed.written
                       ELSE left.dest
    IN  IF at.start = 0 /\ at.stop = original_size
        THEN {TagsOutcome("return", "", tags)}
        ELSE IF left.err # "" THEN {TagsOutcome("raise", left.err, <<>>)}
        ELSE IF at.step # 1 THEN {TagsOutcome("return", "", left.dest)}
        ELSE IF left.mv = NULL THEN {TagsOutcome("crash", "", <<>>)}
        ELSE IF Len(destination) > tags_length
        THEN {TagsOutcome("crash", "", <<>>),
              TagsOutcome("return", "", destination)}
        ELSE {TagsOutcome("return", "", destination)}

\* SequenceRecord.__getitem__ for a record with tags: the slices are taken
\* and slice_tags is called, then self.__class__ is called with four
\* arguments, of which __init__ takes three at most
GetItemWithTags(self, tags, key) ==
    {IF sliced.kind = "crash"
     THEN [self |-> self,
           result |-> [kind |-> "crash", err |-> "", value |-> None,
                       record |-> NewSequenceRecord]]
     ELSE IF sliced.kind = "raise" THEN Raised(self, sliced.err)
     ELSE Raised(self, "TypeError") :
         sliced \in slice_tags(tags, PyUnicode_GET_LENGTH(self._sequence), key)}

---------------------------------------------------------------------------
(* Records of a BAM file with tags, sliced *)

\* a tag with an integer of one byte, and one with four
ByteTag(name, value) == Ords(name) \o <<Ord("c")>> \o SignedBytes(value, 1)
IntTag(name, value) == Ords(name) \o <<Ord("i")>> \o to_bytes(value, 4)

\* the move table of four bases: the stride, then six moves
MoveTable == <<5, 1, 0, 1, 1, 0, 1>>

MoveTag == Ords(<<"m", "v", "B", "c">>) \o to_bytes(Len(MoveTable), 4) \o MoveTable

\* RG:Z:A and du:f:0
GroupTag == Ords(<<"R", "G", "Z", "A">>) \o <<NUL>>
DurationTag == Ords(<<"d", "u", "f">>) \o Zeros(4)

\* the tag blocks of the records
TagBlocks ==
    {<<>>,
     ByteTag(<<"q", "s">>, 9) \o IntTag(<<"n", "s">>, 40) \o ByteTag(<<"c", "h">>, 1),
     MoveTag \o ByteTag(<<"t", "s">>, 10) \o IntTag(<<"n", "s">>, 40)
         \o ByteTag(<<"q", "s">>, 9),
     ByteTag(<<"q", "s">>, 9) \o IntTag(<<"M", "N">>, 4) \o ByteTag(<<"t", "s">>, 10),
     ByteTag(<<"q", "s">>, 9) \o GroupTag,
     DurationTag \o ByteTag(<<"q", "s">>, 9),
     ByteTag(<<"m", "v">>, 1) \o ByteTag(<<"q", "s">>, 9)}

\* the record of four bases whose tags are sliced
TaggedRecord ==
    [NewSequenceRecord EXCEPT
         !._name = Str(<<LetterA>>),
         !._sequence = Str(<<LetterA, LetterC, LetterG, LetterT>>),
         !._qualities = Str(<<HASH, HASH, HASH, HASH>>)]

\* slice_tags called as __getitem__ calls it
CallSliceTags ==
    /\ last.op = ""
    /\ \E key \in SliceKeys :
       \E sliced \in slice_tags(last.args[1].value,
                                PyUnicode_GET_LENGTH(seq_record._sequence),
                                key) :
           last' = [Call("slice_tags", last.args, key, FALSE,
                         Returned(seq_record, PyBytes(sliced.tags),
                                  NewSequenceRecord).result)
                        EXCEPT !.result.kind = sliced.kind,
                               !.result.err = sliced.err]
    /\ UNCHANGED <<parser, seq_record, bams, decode_bam_sequence>>

\* record[key] for the record with the tags that are the pending argument
CallGetItemWithTags ==
    /\ last.op = ""
    /\ \E key \in SliceKeys :
       \E outcome \in GetItemWithTags(seq_record, last.args[1].value, key) :
           last' = Call("__getitem__", last.args, key, FALSE, outcome.result)
    /\ UNCHANGED <<parser, seq_record, bams, decode_bam_sequence>>

NextTags == CallSliceTags \/ CallGetItemWithTags

InitTags ==
    /\ source = NoRecord
    /\ seq_record = TaggedRecord
    /\ NoBamIter
    /\ \E tags \in TagBlocks : last = Pending(<<PyBytes(tags)>>)
    /\ NewFastqIter(<<>>, 1)

SpecTags == InitTags /\ [][NextTags]_vars

---------------------------------------------------------------------------
(* The tags of the BAM format, read off a tag block at once: the reference *)
(* the sliced tags are compared with.                                      *)

\* the length of the tag at offset at of the block: two bytes of name, one
\* of type, and the value
FormatTagLength(block, at) ==
    LET type == block[at + 3]
        item == block[at + 4]
        item_size == IF item \in {Ord("c"), Ord("C")} THEN 1
                     ELSE IF item \in {Ord("s"), Ord("S")} THEN 2 ELSE 4
    IN  IF type \in {Ord("c"), Ord("C"), Ord("A")} THEN 4
        ELSE IF type \in {Ord("s"), Ord("S")} THEN 5
        ELSE IF type \in {Ord("i"), Ord("I"), Ord("f")} THEN 7
        ELSE IF type \in {Ord("Z"), Ord("H")}
        THEN MinOf({k \in 4 .. (Len(block) - at) : block[at + k] = NUL})
        ELSE 8 + item_size * UintAt(block, at + 4, 4)

\* the tags of the block from offset at on, in order
RECURSIVE TagsFrom(_, _)
TagsFrom(block, at) ==
    IF at >= Len(block) THEN <<>>
    ELSE <<SubSeq(block, at + 1, at + FormatTagLength(block, at))>>
         \o TagsFrom(block, at + FormatTagLength(block, at))

TagName(tag) == SubSeq(tag, 1, 2)

\* the tags named name among tags
TagsNamed(tags, name) ==
    LET Named(tag) == TagName(tag) = Ords(name)
    IN  SelectSeq(tags, Named)

\* the tags among tags whose names are not in names
TagsNotNamed(tags, names) ==
    LET Other(tag) == TagName(tag) \notin {Ords(name) : name \in names}
    IN  SelectSeq(tags, Other)

\* the integer of a tag of type c, C, s, S or i
TagInt(tag) ==
    LET size == Len(tag) - 3
        unsigned == int_from_bytes(SubSeq(tag, 4, Len(tag)))
    IN  IF tag[3] \in {Ord("C"), Ord("S")} \/ tag[Len(tag)] < 128 THEN unsigned
        ELSE IF size = 1 THEN unsigned - 256
        ELSE IF size = 2 THEN unsigned - 65536
        ELSE -1

\* the names of the tags that do not outlive a slice with a step
StepDropped ==
    {<<"m", "v">>, <<"n", "s">>, <<"t", "s">>, <<"M", "M">>, <<"M", "L">>,
     <<"M", "N">>, <<"d", "u">>}

\* C38: the record made by slicing a record of a BAM file with a slice
\* whose step is not 1 has none of the tags mv, ns, ts, MM, ML, MN, du, and
\* all the other tags of the sliced record, unchanged and in their order.
C38_StepNotOne ==
    (last.op = "__getitem__" /\ last.key.step \notin {<<>>, <<1>>}) =>
        /\ last.result.kind = "return"
        /\ TagsFrom(last.result.value.value, 0)
               = TagsNotNamed(TagsFrom(last.args[1].value, 0), StepDropped)

\* the number of moves 1 among the first k moves
RECURSIVE Ones(_, _)
Ones(moves, k) ==
    IF k = 0 THEN 0 ELSE Ones(moves, k - 1) + (IF moves[k] = 1 THEN 1 ELSE 0)

\* the moves that belong to the bases start .. stop - 1, base 0 beginning
\* with the first move 1
KeptMoves(moves, start, stop) ==
    LET OfKeptBase(k) == start < Ones(moves, k) /\ Ones(moves, k) <= stop
        first == Cardinality({k \in DOMAIN moves : Ones(moves, k) <= start})
        count == Cardinality({k \in DOMAIN moves : OfKeptBase(k)})
    IN  SubSeq(moves, first + 1, first + count)

\* the names of the tags that are made anew or dropped by a slice of step 1
TrimDropped ==
    {<<"m", "v">>, <<"n", "s">>, <<"t", "s">>, <<"M", "N">>, <<"d", "u">>}

\* C39: the record made by slicing a record of a BAM file with step 1 and
\* a proper subrange [start, stop) of its bases has the mv tag with the
\* stride and the moves of the bases kept, ts the old ts plus the stride for
\* each move trimmed in front, ns the stride for each move kept plus
\* max(ts, 0), neither MN nor du, and every other tag unchanged.
C39_StepOne ==
    LET n == PyUnicode_GET_LENGTH(seq_record._sequence)
        at == SliceIndices(last.key, n)
        start == at.start
        stop == at.start + at.count
        tags == TagsFrom(last.args[1].value, 0)
        mv == TagsNamed(tags, <<"m", "v">>)
    IN  (/\ last.op = "__getitem__"
         /\ at.step = 1 /\ at.count > 0 /\ at.count < n
         /\ Len(mv) = 1 /\ mv[1][3] = Ord("B")
         /\ Len(TagsNamed(tags, <<"t", "s">>)) = 1
         /\ Len(TagsNamed(tags, <<"n", "s">>)) = 1) =>
            /\ last.result.kind = "return"
            /\ LET made == TagsFrom(last.result.value.value, 0)
                   stride == mv[1][9]
                   moves == SubSeq(mv[1], 10, Len(mv[1]))
                   kept == KeptMoves(moves, start, stop)
                   trimmed ==
                       Cardinality({k \in DOMAIN moves : Ones(moves, k) <= start})
                   ts == TagInt(TagsNamed(tags, <<"t", "s">>)[1])
                            + trimmed * stride
               IN  /\ TagsNotNamed(made, TrimDropped)
                          = TagsNotNamed(tags, TrimDropped)
                   /\ TagsNamed(made, <<"m", "v">>)
                          = <<Ords(<<"m", "v", "B", "c">>)
                                  \o to_bytes(Len(kept) + 1, 4)
                                  \o <<stride>> \o kept>>
                   /\ Len(TagsNamed(made, <<"t", "s">>)) = 1
                   /\ TagInt(TagsNamed(made, <<"t", "s">>)[1]) = ts
                   /\ Len(TagsNamed(made, <<"n", "s">>)) = 1
                   /\ TagInt(TagsNamed(made, <<"n", "s">>)[1])
                          = Len(kept) * stride + (IF ts > 0 THEN ts ELSE 0)
                   /\ TagsNamed(made, <<"M", "N">>) = <<>>
                   /\ TagsNamed(made, <<"d", "u">>) = <<>>

---------------------------------------------------------------------------
(* Claim about the bytes of the headers that the comparisons of ids read *)

\* the indexes at which the call that was made read the first header, and
\* the number of bytes it gave to memcmp, for the second header header2:
\* header1[id1_length - 1], and id1_length or id1_length - 1
FirstHeaderRead(header1, header2, before1, before2) ==
    LET header1_chars == PyUnicode_DATA(header1)
        header2_chars == PyUnicode_DATA(header2)
        id1_length == strcspn(header1_chars, {SPACE, TAB})
        both_end_with_number ==
            /\ EndsWithNumber(CharAt(header1_chars, id1_length - 1, before1))
            /\ PyUnicode_GET_LENGTH(header2) >= id1_length
            /\ EndsWithNumber(CharAt(header2_chars, id1_length - 1, before2))
    IN  [index |-> id1_length - 1,
         compared |-> IF both_end_with_number THEN id1_length - 1
                      ELSE id1_length]

\* C40: is_mate, record_names_match and records_are_mates read a header at
\* indexes from 0 to its length only: with an empty first id no byte is read
\* at index -1, and the length given to memcmp is not id1_length - 1 below 0.
C40_HeaderIndices ==
    (/\ last.op \in {"is_mate", "record_names_match", "records_are_mates"}
     /\ last.result.kind = "return") =>
        LET read == FirstHeaderRead(seq_record._name, last.args[1]._name,
                                    last.args[2], last.args[3])
        IN  /\ 0 <= read.index
            /\ read.index <= PyUnicode_GET_LENGTH(seq_record._name)
            /\ 0 <= read.compared

============================================================================
